---- MODULE Spec2Model ----
(***************************************************************************)
(* Derivation engine of deriva: the orchestrator run_derivation            *)
(* (services/derivation.py), the generic generate step generate_element    *)
(* (modules/derivation/generate.py), the batched element-type step         *)
(* generate (modules/derivation/application_component.py), the relationship*)
(* resolver _derive_relationships and the identifier functions of          *)
(* modules/derivation/base.py.                                             *)
(*                                                                         *)
(* Identifiers are sequences of one-character strings.  A response field   *)
(* is a record [kind, text]: kind "str" (a string is present), "missing"   *)
(* (dict.get returns None) or "nonstr" (a JSON value that is not a string).*)
(* Every external call (graph query, completion call, persistence call,    *)
(* prep algorithm) is a nondeterministic choice over its outcomes.         *)
(***************************************************************************)
EXTENDS Integers, Sequences, FiniteSets, TLC

(***************************************************************************)
(* Bounds                                                                  *)
(***************************************************************************)
MaxLen == 3
MaxPrepSteps == 1
MaxGenSteps == 2
MaxItems == 1
MaxBatchItems == 2
MaxRels == 2
MaxBatches == 2
MaxCands == 3
MaxLimit == 2
MaxBatchSize == 2
MaxNameParts == 2
MaxEdges == 2         \* edges of an enriched graph
MaxAlgs == 2          \* names in the algorithms argument
MaxLines == 3         \* lines of a chunked content
MaxLineLen == 4       \* characters of a line, its line end included
MaxTokens == 2        \* the max_tokens argument

(***************************************************************************)
(* Characters and Python's str predicates on them                          *)
(***************************************************************************)
UpperAlphabet ==
    <<"A", "B", "C", "D", "E", "F", "G", "H", "I", "J", "K", "L", "M",
      "N", "O", "P", "Q", "R", "S", "T", "U", "V", "W", "X", "Y", "Z">>
LowerAlphabet ==
    <<"a", "b", "c", "d", "e", "f", "g", "h", "i", "j", "k", "l", "m",
      "n", "o", "p", "q", "r", "s", "t", "u", "v", "w", "x", "y", "z">>
UpperLetters == {UpperAlphabet[i] : i \in DOMAIN UpperAlphabet}
LowerLetters == {LowerAlphabet[i] : i \in DOMAIN LowerAlphabet}
Digits == {"1", "2", "3", "4", "5", "6", "7", "8", "9"}

\* the alphabet the enumerated raw identifiers are drawn from
Chars == {"a", "A", "1", "_", "-", " ", ":", "!"}

\* str.lower() on one character
Lower(c) ==
    IF c \in UpperLetters
    THEN LowerAlphabet[CHOOSE i \in DOMAIN UpperAlphabet : UpperAlphabet[i] = c]
    ELSE c

\* str.upper() on one character
Upper(c) ==
    IF c \in LowerLetters
    THEN UpperAlphabet[CHOOSE i \in DOMAIN LowerAlphabet : LowerAlphabet[i] = c]
    ELSE c

\* str.isalpha() / str.isalnum() on one character
IsAlpha(c) == c \in UpperLetters \cup LowerLetters
IsAlnum(c) == IsAlpha(c) \/ c \in Digits

\* str.lower() on a string
LowerStr(s) == [i \in 1..Len(s) |-> Lower(s[i])]

\* all strings over Chars of length at most n
StringsUpTo(n) == UNION {[1..k -> Chars] : k \in 0..n}

(***************************************************************************)
(* modules/derivation/base.py                                              *)
(***************************************************************************)
SepToUnderscore(c) == IF c \in {" ", "-", ":"} THEN "_" ELSE c
KeepChar(c) == IsAlnum(c) \/ c = "_"
\* .replace(" ", "_").replace("-", "_").replace(":", "_")
ReplaceSeparators(s) == [i \in 1..Len(s) |-> SepToUnderscore(s[i])]
IdPrefix == <<"i", "d", "_">>
IdPrefixHyphen == <<"i", "d", "-">>

\* a slip: the marker of Element.__post_init__ ("id-") used as the prefix
SanitizeHyphenPrefix(identifier) ==
    LET sanitized == SelectSeq(ReplaceSeparators(LowerStr(identifier)), KeepChar)
    IN IF sanitized # <<>> /\ ~(IsAlpha(sanitized[1]) \/ sanitized[1] = "_")
       THEN IdPrefixHyphen \o sanitized
       ELSE sanitized

\* _sanitize_identifier: lowercase; space, hyphen, colon to underscore;
\* keep alphanumerics and underscore; prefix "id_" unless the result is
\* empty or starts with a letter or underscore
_sanitize_identifier(identifier) ==
    LET sanitized == SelectSeq(ReplaceSeparators(LowerStr(identifier)), KeepChar)
    IN IF sanitized # <<>> /\ ~(IsAlpha(sanitized[1]) \/ sanitized[1] = "_")
       THEN IdPrefix \o sanitized
       ELSE sanitized

Str(t) == [kind |-> "str", text |-> t]
Missing == [kind |-> "missing", text |-> <<>>]
NonStr == [kind |-> "nonstr", text |-> <<>>]

\* Python truthiness of a field value: None and "" are falsy
Truthy(f) == f.kind = "nonstr" \/ (f.kind = "str" /\ f.text # <<>>)

\* a confidence value of an item, in tenths; NoConfidence: the key is absent
NoConfidence == [present |-> FALSE, value |-> 0]
Confidence(v) == [present |-> TRUE, value |-> v]

\* the default of derived.get("confidence", 0.5), in tenths
DEFAULT_CONFIDENCE == 5

\* a derived item: element_type is the type the item itself names ("" if none)
Item(identifier, name, confidence, item_type) ==
    [identifier |-> identifier, name |-> name, confidence |-> confidence,
     element_type |-> item_type]

NoData == [outcome |-> "invalid", identifier |-> <<>>, name |-> <<>>,
           element_type |-> "", confidence |-> 0]

\* a slip: the type named by the item overrides the step's configured type
BuildElementItemType(derived, element_type) ==
    IF ~Truthy(derived.identifier) \/ ~Truthy(derived.name)
    THEN NoData
    ELSE IF derived.identifier.kind = "nonstr"
    THEN [NoData EXCEPT !.outcome = "raise"]
    ELSE [outcome |-> "ok",
          identifier |-> _sanitize_identifier(derived.identifier.text),
          name |-> derived.name.text,
          element_type |-> IF derived.element_type # "" THEN derived.element_type
                           ELSE element_type,
          confidence |-> IF derived.confidence.present THEN derived.confidence.value
                         ELSE DEFAULT_CONFIDENCE]

\* build_element: "raise" when identifier.lower() is applied to a value
\* that is not a string, "invalid" when identifier or name is falsy
build_element(derived, element_type) ==
    IF ~Truthy(derived.identifier) \/ ~Truthy(derived.name)
    THEN NoData
    ELSE IF derived.identifier.kind = "nonstr"
    THEN [NoData EXCEPT !.outcome = "raise"]
    ELSE [outcome |-> "ok",
          identifier |-> _sanitize_identifier(derived.identifier.text),
          name |-> derived.name.text,
          element_type |-> element_type,
          confidence |-> IF derived.confidence.present THEN derived.confidence.value
                         ELSE DEFAULT_CONFIDENCE]

(***************************************************************************)
(* adapters/archimate/models.py                                            *)
(***************************************************************************)
\* the identifier Element.__post_init__ generates for an empty identifier:
\* "id-" followed by a fresh uuid (k names the uuid)
UuidChars == <<"1", "2", "3", "4", "5", "6", "7", "8", "9">>
UuidIdentifier(k) == <<"i", "d", "-", "u", UuidChars[k]>>

\* Element(...).identifier
Element(identifier, k) == IF identifier = <<>> THEN UuidIdentifier(k) ELSE identifier

(***************************************************************************)
(* services/derivation.py                                                  *)
(***************************************************************************)
DashSpaceToUnderscore(c) == IF c \in {"-", " "} THEN "_" ELSE c

\* _normalize_identifier: lowercase, hyphen and space to underscore
_normalize_identifier(identifier) ==
    LET lowered == LowerStr(identifier)
    IN [i \in 1..Len(lowered) |-> DashSpaceToUnderscore(lowered[i])]

\* RELATIONSHIP_TYPES.keys() (adapters/archimate/models.py)
RELATIONSHIP_TYPES ==
    {<<"C", "o", "m", "p", "o", "s", "i", "t", "i", "o", "n">>,
     <<"A", "g", "g", "r", "e", "g", "a", "t", "i", "o", "n">>,
     <<"A", "s", "s", "i", "g", "n", "m", "e", "n", "t">>,
     <<"R", "e", "a", "l", "i", "z", "a", "t", "i", "o", "n">>,
     <<"S", "e", "r", "v", "i", "n", "g">>,
     <<"A", "c", "c", "e", "s", "s">>,
     <<"F", "l", "o", "w">>}

\* a slip: an input that matches no member comes back lowercased
NormalizeLowerUnknown(rel_type) ==
    LET matches == {v \in RELATIONSHIP_TYPES : LowerStr(v) = LowerStr(rel_type)}
    IN IF rel_type \in RELATIONSHIP_TYPES THEN rel_type
       ELSE IF matches = {} THEN LowerStr(rel_type)
       ELSE CHOOSE v \in matches : TRUE

\* _normalize_relationship_type: the member itself, else the member equal to
\* the input in lower case (no two members are), else the input
_normalize_relationship_type(rel_type) ==
    LET matches == {v \in RELATIONSHIP_TYPES : LowerStr(v) = LowerStr(rel_type)}
    IN IF rel_type \in RELATIONSHIP_TYPES THEN rel_type
       ELSE IF matches = {} THEN rel_type
       ELSE CHOOSE v \in matches : TRUE

NotFound == [found |-> FALSE, id |-> <<>>]
Found(i) == [found |-> TRUE, id |-> i]

\* the values normalized_lookup.get(key) can return: the dict comprehension
\* keeps one identifier per key, the last one in set iteration order
LookupResults(element_ids, key) ==
    LET hits == {eid \in element_ids : _normalize_identifier(eid) = key}
    IN IF hits = {} THEN {NotFound} ELSE {Found(eid) : eid \in hits}

\* a slip: the normalized key is returned instead of the looked-up identifier
ResolveToNormalized(element_ids, ref) ==
    IF ref \in element_ids THEN {Found(ref)} ELSE {Found(_normalize_identifier(ref))}

\* resolve_identifier(ref) for a string ref: the set of possible results
resolve_identifier(element_ids, ref) ==
    IF ref \in element_ids
    THEN {Found(ref)}
    ELSE LookupResults(element_ids, _normalize_identifier(ref))

\* _derive_relationships, one pass of the loop over parse_result["data"]:
\* the outcome for one relationship of the response.  A missing source or
\* target is None; `None in element_ids` is False and
\* _normalize_identifier(None) raises AttributeError, which nothing catches.
\* The target is resolved (line 286) before the source is tested (line 288).
RelOutcomes(element_ids, source_ref, target_ref, persist_ok) ==
    IF source_ref.kind # "str" \/ target_ref.kind # "str"
    THEN {[status |-> "raise", source |-> NotFound, target |-> NotFound]}
    ELSE {[status |-> IF ~s.found THEN "source_not_found"
                      ELSE IF ~t.found THEN "target_not_found"
                      ELSE IF persist_ok THEN "persisted"
                      ELSE "persist_failed",
           source |-> s, target |-> t] :
             s \in resolve_identifier(element_ids, source_ref.text),
             t \in resolve_identifier(element_ids, target_ref.text)}

(***************************************************************************)
(* Candidate filtering: the primitives of base.py and the filters of       *)
(* application_component.py and business_object.py                        *)
(***************************************************************************)
Min(a, b) == IF a < b THEN a ELSE b
Range(s) == {s[i] : i \in 1..Len(s)}

\* `pattern in name_lower`
IsSubstring(p, s) ==
    \E i \in 0..(Len(s) - Len(p)) : SubSeq(s, i + 1, i + Len(p)) = p

\* some pattern of the set is a substring of name.lower()
MatchesAny(patterns, name) == \E p \in patterns : IsSubstring(p, LowerStr(name))

\* a candidate as the query builds it: node ids are ordered like the
\* integers, community 0 is None, pagerank is a rank instead of a float
Candidate(node_id, name) ==
    [node_id |-> node_id, name |-> name, pagerank |-> 0, louvain_community |-> 0]

\* enrich_candidate: the metrics of the enrichment map, defaults if absent
enrich_candidate(c, enrichments) ==
    IF c.node_id \in DOMAIN enrichments
    THEN [c EXCEPT !.pagerank = enrichments[c.node_id].pagerank,
                   !.louvain_community = enrichments[c.node_id].louvain_community]
    ELSE [c EXCEPT !.pagerank = 0, !.louvain_community = 0]

\* the loop `for c in candidates: enrich_candidate(c, enrichments)`
EnrichAll(candidates, enrichments) ==
    [i \in 1..Len(candidates) |-> enrich_candidate(candidates[i], enrichments)]

IsCommunityRoot(c) == c.louvain_community = c.node_id

\* get_community_roots: the candidates whose community id is their node id
get_community_roots(candidates) == SelectSeq(candidates, IsCommunityRoot)

\* a comes before b: higher pagerank first, ties by node id
Before(a, b) ==
    a.pagerank > b.pagerank \/ (a.pagerank = b.pagerank /\ a.node_id < b.node_id)

\* filter_by_pagerank(candidates): sorted, no limit
SortedByPagerank(candidates) ==
    [i \in 1..Len(candidates) |->
        candidates[CHOOSE j \in 1..Len(candidates) :
            Cardinality({k \in 1..Len(candidates) :
                            Before(candidates[k], candidates[j])}) = i - 1]]

\* filter_by_pagerank(candidates, top_n=top_n): sorted and truncated
filter_by_pagerank(candidates, top_n) ==
    SubSeq(SortedByPagerank(candidates), 1, Min(top_n, Len(candidates)))

\* application_component.py: top_n of the high-pagerank non-roots (line 145)
HIGH_PAGERANK_TOP_N == 10

\* a slip: the final call sorts but passes no top_n
FilterWithoutLimit(candidates, enrichments, max_candidates) ==
    IF candidates = <<>> THEN <<>>
    ELSE LET roots == get_community_roots(candidates)
             non_roots == SelectSeq(candidates, LAMBDA c : c \notin Range(roots))
             high_pagerank == filter_by_pagerank(non_roots, HIGH_PAGERANK_TOP_N)
             combined == roots \o SelectSeq(high_pagerank,
                                            LAMBDA c : c \notin Range(roots))
         IN SortedByPagerank(combined)

\* application_component.filter_candidates; max_candidates is MAX_CANDIDATES.
\* The candidates are distinct, so `if c not in combined` only drops roots.
application_component_filter_candidates(candidates, enrichments, max_candidates) ==
    IF candidates = <<>> THEN <<>>
    ELSE LET roots == get_community_roots(candidates)
             non_roots == SelectSeq(candidates, LAMBDA c : c \notin Range(roots))
             high_pagerank == filter_by_pagerank(non_roots, HIGH_PAGERANK_TOP_N)
             combined == roots \o SelectSeq(high_pagerank,
                                            LAMBDA c : c \notin Range(roots))
         IN filter_by_pagerank(combined, max_candidates)

business_object_EXCLUDED_PATTERNS ==
    {<<"a", "b", "s", "t", "r", "a", "c", "t">>, <<"a", "d", "a", "p", "t", "e", "r">>,
     <<"b", "a", "s", "e">>, <<"b", "u", "i", "l", "d", "e", "r">>,
     <<"c", "o", "m", "m", "o", "n">>, <<"c", "o", "n", "f", "i", "g">>,
     <<"d", "e", "c", "o", "r", "a", "t", "o", "r">>, <<"e", "r", "r", "o", "r">>,
     <<"e", "x", "c", "e", "p", "t", "i", "o", "n">>, <<"f", "a", "c", "t", "o", "r", "y">>,
     <<"f", "a", "k", "e">>, <<"f", "i", "x", "t", "u", "r", "e">>,
     <<"h", "a", "n", "d", "l", "e", "r">>, <<"h", "e", "l", "p", "e", "r">>,
     <<"i", "n", "t", "e", "r", "f", "a", "c", "e">>,
     <<"m", "i", "d", "d", "l", "e", "w", "a", "r", "e">>, <<"m", "i", "x", "i", "n">>,
     <<"m", "o", "c", "k">>, <<"o", "p", "t", "i", "o", "n", "s">>,
     <<"p", "a", "r", "a", "m", "s">>, <<"p", "r", "o", "t", "o", "c", "o", "l">>,
     <<"p", "r", "o", "x", "y">>, <<"s", "e", "t", "t", "i", "n", "g", "s">>,
     <<"s", "t", "u", "b">>, <<"t", "e", "s", "t">>, <<"t", "o", "o", "l", "s">>,
     <<"u", "t", "i", "l">>, <<"u", "t", "i", "l", "s">>,
     <<"w", "r", "a", "p", "p", "e", "r">>}

BUSINESS_PATTERNS ==
    {<<"a", "c", "c", "o", "u", "n", "t">>, <<"a", "d", "d", "r", "e", "s", "s">>,
     <<"a", "g", "r", "e", "e", "m", "e", "n", "t">>, <<"a", "l", "e", "r", "t">>,
     <<"c", "a", "t", "a", "l", "o", "g">>, <<"c", "l", "i", "e", "n", "t">>,
     <<"c", "o", "m", "p", "a", "n", "y">>, <<"c", "o", "n", "t", "a", "c", "t">>,
     <<"c", "o", "n", "t", "r", "a", "c", "t">>, <<"c", "u", "s", "t", "o", "m", "e", "r">>,
     <<"d", "e", "p", "a", "r", "t", "m", "e", "n", "t">>, <<"d", "e", "t", "a", "i", "l">>,
     <<"d", "o", "c", "u", "m", "e", "n", "t">>, <<"e", "m", "a", "i", "l">>,
     <<"e", "m", "p", "l", "o", "y", "e", "e">>, <<"e", "n", "t", "r", "y">>,
     <<"i", "n", "v", "e", "n", "t", "o", "r", "y">>, <<"i", "n", "v", "o", "i", "c", "e">>,
     <<"i", "t", "e", "m">>, <<"l", "i", "c", "e", "n", "s", "e">>,
     <<"m", "e", "m", "b", "e", "r">>, <<"m", "e", "s", "s", "a", "g", "e">>,
     <<"n", "o", "t", "i", "f", "i", "c", "a", "t", "i", "o", "n">>,
     <<"o", "r", "d", "e", "r">>,
     <<"o", "r", "g", "a", "n", "i", "z", "a", "t", "i", "o", "n">>,
     <<"p", "a", "y", "m", "e", "n", "t">>, <<"p", "l", "a", "n">>,
     <<"p", "o", "s", "i", "t", "i", "o", "n">>,
     <<"p", "r", "e", "f", "e", "r", "e", "n", "c", "e">>,
     <<"p", "r", "o", "c", "e", "s", "s">>, <<"p", "r", "o", "d", "u", "c", "t">>,
     <<"p", "r", "o", "f", "i", "l", "e">>, <<"p", "r", "o", "j", "e", "c", "t">>,
     <<"q", "u", "o", "t", "a">>, <<"r", "e", "c", "e", "i", "p", "t">>,
     <<"r", "e", "c", "o", "r", "d">>, <<"r", "e", "p", "o", "r", "t">>,
     <<"s", "t", "o", "c", "k">>,
     <<"s", "u", "b", "s", "c", "r", "i", "p", "t", "i", "o", "n">>, <<"t", "a", "s", "k">>,
     <<"t", "r", "a", "n", "s", "a", "c", "t", "i", "o", "n">>, <<"u", "s", "e", "r">>,
     <<"w", "o", "r", "k", "f", "l", "o", "w">>}

\* business_object._is_likely_business_object
_is_likely_business_object(name) ==
    IF name = <<>> THEN FALSE
    ELSE IF MatchesAny(business_object_EXCLUDED_PATTERNS, name) THEN FALSE
    ELSE IF MatchesAny(BUSINESS_PATTERNS, name) THEN TRUE
    ELSE name[1] \in UpperLetters /\ "_" \notin Range(name)

IsLikelyBusinessObject(c) == _is_likely_business_object(c.name.text)
HasName(c) == Truthy(c.name)

\* a slip: the likely candidates may take every slot
FilterLikelyUnhalved(candidates, enrichments, max_candidates) ==
    LET filtered == SelectSeq(EnrichAll(candidates, enrichments), HasName)
        likely == SelectSeq(filtered, IsLikelyBusinessObject)
        others == SelectSeq(filtered, LAMBDA c : ~IsLikelyBusinessObject(c))
        likely_business == filter_by_pagerank(likely, max_candidates)
        remaining_slots == max_candidates - Len(likely_business)
        extended == IF remaining_slots > 0 /\ others # <<>>
                    THEN likely_business \o filter_by_pagerank(others, remaining_slots)
                    ELSE likely_business
    IN SubSeq(extended, 1, Min(max_candidates, Len(extended)))

\* business_object.filter_candidates; max_candidates is MAX_CANDIDATES
business_object_filter_candidates(candidates, enrichments, max_candidates) ==
    LET filtered == SelectSeq(EnrichAll(candidates, enrichments), HasName)
        likely == SelectSeq(filtered, IsLikelyBusinessObject)
        others == SelectSeq(filtered, LAMBDA c : ~IsLikelyBusinessObject(c))
        likely_business == filter_by_pagerank(likely, max_candidates \div 2)
        remaining_slots == max_candidates - Len(likely_business)
        extended == IF remaining_slots > 0 /\ others # <<>>
                    THEN likely_business \o filter_by_pagerank(others, remaining_slots)
                    ELSE likely_business
    IN SubSeq(extended, 1, Min(max_candidates, Len(extended)))

(***************************************************************************)
(* Name patterns of application_service.py and technology_service.py       *)
(***************************************************************************)
SERVICE_PATTERNS ==
    {<<"a", "p", "i">>, <<"a", "u", "t", "h", "e", "n", "t", "i", "c", "a", "t", "e">>,
     <<"c", "o", "n", "t", "r", "o", "l", "l", "e", "r">>, <<"d", "e", "l", "e", "t", "e">>,
     <<"d", "e", "t", "a", "i", "l">>, <<"d", "o", "w", "n", "l", "o", "a", "d">>,
     <<"e", "n", "d", "p", "o", "i", "n", "t">>, <<"e", "x", "p", "o", "r", "t">>,
     <<"f", "i", "l", "t", "e", "r">>, <<"g", "e", "t">>,
     <<"h", "a", "n", "d", "l", "e", "r">>, <<"i", "m", "p", "o", "r", "t">>,
     <<"i", "n", "d", "e", "x">>, <<"l", "i", "s", "t">>, <<"l", "o", "g", "i", "n">>,
     <<"l", "o", "g", "o", "u", "t">>, <<"p", "a", "t", "c", "h">>, <<"p", "o", "s", "t">>,
     <<"p", "u", "t">>, <<"r", "e", "g", "i", "s", "t", "e", "r">>, <<"r", "e", "s", "t">>,
     <<"r", "o", "u", "t", "e">>, <<"s", "e", "a", "r", "c", "h">>, <<"s", "h", "o", "w">>,
     <<"u", "p", "l", "o", "a", "d">>, <<"v", "i", "e", "w">>}

application_service_EXCLUDED_PATTERNS ==
    {<<"_">>, <<"_", "_", "d", "e", "l", "_", "_">>,
     <<"_", "_", "i", "n", "i", "t", "_", "_">>, <<"c", "o", "n", "v", "e", "r", "t">>,
     <<"d", "e", "s", "e", "r", "i", "a", "l", "i", "z", "e">>,
     <<"f", "o", "r", "m", "a", "t">>, <<"h", "e", "l", "p", "e", "r">>,
     <<"i", "n", "t", "e", "r", "n", "a", "l">>, <<"p", "a", "r", "s", "e">>,
     <<"p", "r", "i", "v", "a", "t", "e">>, <<"s", "e", "r", "i", "a", "l", "i", "z", "e">>,
     <<"s", "e", "t", "u", "p">>, <<"t", "e", "a", "r", "d", "o", "w", "n">>,
     <<"v", "a", "l", "i", "d", "a", "t", "e">>}

\* a slip: the service patterns are tested before the exclusions
IsLikelyServiceInclusionFirst(name) ==
    IF name = <<>> THEN FALSE
    ELSE IF MatchesAny(SERVICE_PATTERNS, name) THEN TRUE
    ELSE FALSE

\* application_service._is_likely_service; name_lower.startswith(pattern)
\* implies `pattern in name_lower`
_is_likely_service(name) ==
    IF name = <<>> THEN FALSE
    ELSE IF MatchesAny(application_service_EXCLUDED_PATTERNS, name) THEN FALSE
    ELSE IF MatchesAny(SERVICE_PATTERNS, name) THEN TRUE
    ELSE FALSE

EXCLUDED_PACKAGES ==
    {<<"a", "b", "c">>, <<"b", "l", "a", "c", "k">>,
     <<"c", "o", "l", "l", "e", "c", "t", "i", "o", "n", "s">>,
     <<"c", "o", "n", "t", "e", "x", "t", "l", "i", "b">>, <<"c", "o", "p", "y">>,
     <<"d", "a", "t", "a", "c", "l", "a", "s", "s", "e", "s">>,
     <<"d", "a", "t", "e", "t", "i", "m", "e">>, <<"e", "n", "u", "m">>,
     <<"f", "u", "n", "c", "t", "o", "o", "l", "s">>, <<"i", "o">>,
     <<"i", "s", "o", "r", "t">>, <<"i", "t", "e", "r", "t", "o", "o", "l", "s">>,
     <<"j", "s", "o", "n">>, <<"l", "o", "g", "g", "i", "n", "g">>, <<"m", "a", "t", "h">>,
     <<"m", "o", "c", "k">>, <<"m", "y", "p", "y">>, <<"o", "s">>,
     <<"p", "a", "t", "h", "l", "i", "b">>, <<"p", "i", "p">>,
     <<"p", "y", "d", "a", "n", "t", "i", "c">>, <<"p", "y", "t", "e", "s", "t">>,
     <<"r", "e">>, <<"r", "u", "f", "f">>,
     <<"s", "e", "t", "u", "p", "t", "o", "o", "l", "s">>, <<"s", "y", "s">>,
     <<"t", "i", "m", "e">>, <<"t", "y", "p", "i", "n", "g">>,
     <<"t", "y", "p", "i", "n", "g", "_", "e", "x", "t", "e", "n", "s", "i", "o", "n", "s">>,
     <<"u", "n", "i", "t", "t", "e", "s", "t">>, <<"w", "a", "r", "n", "i", "n", "g", "s">>,
     <<"w", "h", "e", "e", "l">>}

TECH_SERVICE_KEYWORDS ==
    {<<"a", "m", "q", "p">>, <<"a", "p", "i">>, <<"a", "u", "t", "h">>, <<"a", "w", "s">>,
     <<"a", "x", "i", "o", "s">>, <<"a", "z", "u", "r", "e">>, <<"b", "l", "o", "b">>,
     <<"c", "e", "l", "e", "r", "y">>, <<"c", "l", "o", "u", "d", "w", "a", "t", "c", "h">>,
     <<"c", "o", "n", "s", "u", "l">>, <<"d", "a", "t", "a", "b", "a", "s", "e">>,
     <<"d", "b">>, <<"d", "j", "a", "n", "g", "o">>, <<"d", "o", "c", "k", "e", "r">>,
     <<"d", "u", "c", "k", "d", "b">>, <<"d", "y", "n", "a", "m", "o", "d", "b">>,
     <<"e", "l", "a", "s", "t", "i", "c">>, <<"e", "x", "p", "r", "e", "s", "s">>,
     <<"f", "a", "s", "t", "a", "p", "i">>, <<"f", "e", "t", "c", "h">>,
     <<"f", "i", "l", "e">>, <<"f", "l", "a", "s", "k">>, <<"g", "c", "p">>,
     <<"g", "r", "a", "p", "h", "q", "l">>, <<"g", "r", "p", "c">>, <<"h", "t", "t", "p">>,
     <<"j", "w", "t">>, <<"k", "a", "f", "k", "a">>,
     <<"k", "u", "b", "e", "r", "n", "e", "t", "e", "s">>, <<"l", "a", "m", "b", "d", "a">>,
     <<"l", "d", "a", "p">>, <<"m", "i", "n", "i", "o">>, <<"m", "o", "n", "g", "o">>,
     <<"m", "y", "s", "q", "l">>, <<"n", "g", "i", "n", "x">>, <<"o", "a", "u", "t", "h">>,
     <<"o", "r", "m">>, <<"p", "o", "s", "t", "g", "r", "e", "s">>,
     <<"p", "r", "i", "s", "m", "a">>, <<"p", "u", "b", "s", "u", "b">>,
     <<"q", "u", "e", "u", "e">>, <<"r", "a", "b", "b", "i", "t", "m", "q">>,
     <<"r", "e", "d", "i", "s">>, <<"r", "e", "q", "u", "e", "s", "t">>,
     <<"r", "e", "s", "t">>, <<"s", "3">>, <<"s", "a", "m", "l">>, <<"s", "q", "l">>,
     <<"s", "q", "l", "a", "l", "c", "h", "e", "m", "y">>, <<"s", "q", "l", "i", "t", "e">>,
     <<"s", "t", "o", "r", "a", "g", "e">>, <<"v", "a", "u", "l", "t">>,
     <<"w", "e", "b", "s", "o", "c", "k", "e", "t">>}

\* technology_service._is_likely_tech_service: a name is excluded when it
\* is an excluded package, `name_lower in EXCLUDED_PACKAGES`
_is_likely_tech_service(name) ==
    IF LowerStr(name) \in EXCLUDED_PACKAGES THEN FALSE
    ELSE IF MatchesAny(TECH_SERVICE_KEYWORDS, name) THEN TRUE
    ELSE FALSE

(***************************************************************************)
(* Batching (base.batch_candidates)                                        *)
(***************************************************************************)
\* the limits of application_component.py, lines 114-115
MAX_CANDIDATES == 30
BATCH_SIZE == 10

\* a slip: the last, shorter batch is dropped
BatchesWithoutRemainder(candidates, batch_size) ==
    [b \in 1..(Len(candidates) \div batch_size) |->
        SubSeq(candidates, (b - 1) * batch_size + 1, b * batch_size)]

\* batch_candidates: consecutive slices of batch_size candidates
batch_candidates(candidates, batch_size) ==
    [b \in 1..((Len(candidates) + batch_size - 1) \div batch_size) |->
        SubSeq(candidates, (b - 1) * batch_size + 1,
               Min(b * batch_size, Len(candidates)))]

(***************************************************************************)
(* enrich.py: graph enrichment                                             *)
(***************************************************************************)
\* the code points of the characters of a node id
CodePoint(c) ==
    CASE c = " " -> 32 [] c = "!" -> 33 [] c = "-" -> 45 [] c = "1" -> 49
      [] c = ":" -> 58 [] c = "A" -> 65 [] c = "_" -> 95 [] c = "a" -> 97

\* the order of Python's str, by which sorted() sorts node ids
RECURSIVE StrLess(_, _)
StrLess(s, t) ==
    IF s = <<>> THEN t # <<>>
    ELSE IF t = <<>> THEN FALSE
    ELSE IF Head(s) = Head(t) THEN StrLess(Tail(s), Tail(t))
    ELSE CodePoint(Head(s)) < CodePoint(Head(t))

\* the values a function of enrich.py returns: a dict or a set
PyDict(items) == [type |-> "dict", items |-> items]
PySet(items) == [type |-> "set", items |-> items]

Edge(src, tgt) == [source |-> src, target |-> tgt]

\* the node set collected from the edge list
AllNodes(edges) ==
    {edges[i].source : i \in DOMAIN edges} \cup {edges[i].target : i \in DOMAIN edges}

\* build_adjacency: the node set and the undirected neighbours of each node
build_adjacency(edges) ==
    [nodes |-> AllNodes(edges),
     adj |-> [n \in AllNodes(edges) |->
                {edges[i].target : i \in {j \in DOMAIN edges : edges[j].source = n}}
                \cup
                {edges[i].source : i \in {j \in DOMAIN edges : edges[j].target = n}}]]

\* build_directed_adjacency: the node set, the successors and the predecessors
build_directed_adjacency(edges) ==
    [nodes |-> AllNodes(edges),
     outgoing |-> [n \in AllNodes(edges) |->
                {edges[i].target : i \in {j \in DOMAIN edges : edges[j].source = n}}],
     incoming |-> [n \in AllNodes(edges) |->
                {edges[i].source : i \in {j \in DOMAIN edges : edges[j].target = n}}]]

\* compute_pagerank: solution is what solvor's pagerank returned
compute_pagerank(edges, solution) ==
    IF build_adjacency(edges).nodes = {} THEN PyDict(<<>>) ELSE PyDict(solution)

\* a slip: the last node of the sorted community names the community
LastOfSorted(community) ==
    CHOOSE m \in community : \A o \in community : o = m \/ StrLess(o, m)

\* sorted(community)[0]
FirstOfSorted(community) ==
    CHOOSE m \in community : \A o \in community : m = o \/ StrLess(m, o)

\* compute_louvain: solution is the list of communities solvor's louvain
\* returned, each node mapped to the first node of its sorted community
compute_louvain(edges, solution) ==
    IF build_adjacency(edges).nodes = {} THEN PyDict(<<>>)
    ELSE PyDict([n \in UNION solution |->
                   FirstOfSorted(CHOOSE community \in solution : n \in community)])

\* a slip: the guard on an empty node set is missing and the library is
\* called on an empty graph
ComputeKcoreUnguarded(edges, solution) ==
    IF build_adjacency(edges).nodes = {} THEN [type |-> "raise", items |-> <<>>]
    ELSE PyDict(solution)

\* compute_kcore: solution is what solvor's kcore_decomposition returned
compute_kcore(edges, solution) ==
    IF build_adjacency(edges).nodes = {} THEN PyDict(<<>>) ELSE PyDict(solution)

\* compute_articulation_points: solution is what solvor's
\* articulation_points returned
compute_articulation_points(edges, solution) ==
    IF build_adjacency(edges).nodes = {} THEN PySet({}) ELSE PySet(solution)

\* compute_degree_centrality: in- and out-degree from the directed edges
compute_degree_centrality(edges) ==
    LET g == build_directed_adjacency(edges)
    IN  PyDict([node \in g.nodes |->
                  [in_degree |-> Cardinality(g.incoming[node]),
                   out_degree |-> Cardinality(g.outgoing[node])]])

\* d[key] = value
Put(d, key, value) ==
    [k \in DOMAIN d \cup {key} |-> IF k = key THEN value ELSE d[k]]

\* enrichments[node][key] = values[node] for every node of values, where
\* enrichments is a defaultdict(dict)
WriteMetric(enrichments, key, values) ==
    [node \in DOMAIN enrichments \cup DOMAIN values |->
        IF node \in DOMAIN values
        THEN Put(IF node \in DOMAIN enrichments THEN enrichments[node] ELSE <<>>,
                 key, values[node])
        ELSE enrichments[node]]

\* a slip: an algorithm runs as soon as any algorithm is requested
InAlgorithmsAny(algorithm_name, algorithms) == algorithms # <<>>

\* "<name>" in algorithms
InAlgorithms(algorithm_name, algorithms) ==
    \E i \in DOMAIN algorithms : algorithms[i] = algorithm_name

\* enrich_graph: lib holds what solvor returns to the calls that are made
enrich_graph(edges, algorithms, lib) ==
    IF edges = <<>> THEN <<>>
    ELSE
    LET all_nodes == AllNodes(edges)
        initial == [node \in all_nodes |-> <<>>]
        with_pagerank ==
            IF InAlgorithms("pagerank", algorithms)
            THEN WriteMetric(initial, "pagerank",
                             compute_pagerank(edges, lib.pagerank).items)
            ELSE initial
        with_louvain ==
            IF InAlgorithms("louvain", algorithms)
            THEN WriteMetric(with_pagerank, "louvain_community",
                             compute_louvain(edges, lib.louvain).items)
            ELSE with_pagerank
        with_kcore ==
            IF InAlgorithms("kcore", algorithms)
            THEN WriteMetric(with_louvain, "kcore_level",
                             compute_kcore(edges, lib.kcore).items)
            ELSE with_louvain
        ap_nodes ==
            compute_articulation_points(edges, lib.articulation_points).items
        with_articulation ==
            IF InAlgorithms("articulation_points", algorithms)
            THEN WriteMetric(with_kcore, "is_articulation_point",
                             [node \in all_nodes |-> node \in ap_nodes])
            ELSE with_kcore
        degrees == compute_degree_centrality(edges).items
        with_degree ==
            IF InAlgorithms("degree", algorithms)
            THEN WriteMetric(
                     WriteMetric(with_articulation, "in_degree",
                         [node \in DOMAIN degrees |-> degrees[node].in_degree]),
                     "out_degree",
                     [node \in DOMAIN degrees |-> degrees[node].out_degree])
            ELSE with_articulation
    IN  with_degree

(***************************************************************************)
(* chunking.py: a content is held as the lengths of its lines, each line   *)
(* with its line end as splitlines(keepends=True) returns it               *)
(***************************************************************************)
RECURSIVE TotalLength(_)
TotalLength(lines) ==
    IF lines = <<>> THEN 0 ELSE Head(lines) + TotalLength(Tail(lines))

\* estimate_tokens: len(content) // 4, and 0 for an empty content
estimate_tokens(content) ==
    IF content = <<>> THEN 0 ELSE TotalLength(content) \div 4

\* should_chunk with max_tokens given
should_chunk(content, max_tokens) == estimate_tokens(content) > max_tokens

Chunk(content, start_line, end_line) ==
    [content |-> content, start_line |-> start_line, end_line |-> end_line]

\* the for loop of chunk_by_lines from line i on; st holds chunks,
\* current_chunk_lines, current_tokens and chunk_start_line
RECURSIVE ChunkLoop(_, _, _, _, _)
ChunkLoop(lines, max_tokens, overlap, i, st) ==
    IF i > Len(lines) THEN st
    ELSE
    LET line_tokens == estimate_tokens(<<lines[i]>>)
        full == st.current_tokens + line_tokens > max_tokens
                    /\ st.current_chunk_lines # <<>>
        with_overlap == overlap > 0 /\ Len(st.current_chunk_lines) >= overlap
        overlap_lines ==
            IF with_overlap
            THEN SubSeq(st.current_chunk_lines,
                        Len(st.current_chunk_lines) - overlap + 1,
                        Len(st.current_chunk_lines))
            ELSE <<>>
        started ==
            IF full
            THEN [chunks |-> Append(st.chunks,
                                    Chunk(st.current_chunk_lines,
                                          st.chunk_start_line, i - 1)),
                  current_chunk_lines |-> overlap_lines,
                  current_tokens |-> estimate_tokens(overlap_lines),
                  chunk_start_line |-> IF with_overlap THEN i - overlap ELSE i]
            ELSE st
    IN  ChunkLoop(lines, max_tokens, overlap, i + 1,
                  [started EXCEPT
                      !.current_chunk_lines = Append(@, lines[i]),
                      !.current_tokens = @ + line_tokens])

\* chunk_by_lines with max_tokens given
chunk_by_lines(content, max_tokens, overlap) ==
    IF ~should_chunk(content, max_tokens)
    THEN <<Chunk(content, 1, Len(content))>>
    ELSE
    LET st == ChunkLoop(content, max_tokens, overlap, 1,
                        [chunks |-> <<>>, current_chunk_lines |-> <<>>,
                         current_tokens |-> 0, chunk_start_line |-> 1])
    IN  IF st.current_chunk_lines # <<>>
        THEN Append(st.chunks,
                    Chunk(st.current_chunk_lines, st.chunk_start_line,
                          Len(content)))
        ELSE st.chunks

(***************************************************************************)
(* Inputs of the environment                                               *)
(***************************************************************************)
Entries == {"run_derivation", "generate", "build_element", "sanitize",
            "normalize_relationship_type", "filter_candidates",
            "batch_candidates", "is_likely", "enrich_graph",
            "compute_algorithm", "chunk_by_lines"}
\* the element-type modules whose generate is called
GenerateModules ==
    {"application_component", "business_object", "application_service"}
PhaseArgs == {{"prep", "generate"}, {"prep"}, {"generate"}, {}}
PrepStepNames == {"pagerank", "unknown_step"}
PrepConfigs == UNION {[1..k -> PrepStepNames] : k \in 0..MaxPrepSteps}

StepElementType(k) == IF k % 2 = 1 THEN "ApplicationComponent" ELSE "DataObject"

Name == Str(<<"N">>)
\* the items a completion response may hold
ResponseItems ==
    {Item(Str(<<"a">>), Name, NoConfidence, ""),
     Item(Str(<<"A", "-", "b">>), Name, NoConfidence, ""),
     Item(Str(<<"!">>), Name, NoConfidence, ""),
     Item(Str(<<"a">>), Missing, NoConfidence, ""),
     Item(Missing, Name, NoConfidence, ""),
     Item(NonStr, Name, NoConfidence, "")}

\* an array of a run's generate step may hold one item more than MaxItems:
\* a last item whose identifier is not a string
TrailingItems == {Item(NonStr, Name, NoConfidence, "")}
ItemsAt(position) == IF position <= MaxItems THEN ResponseItems ELSE TrailingItems

\* the endpoint references a relationship response may hold
ResponseRefs ==
    {Str(<<"a">>), Str(<<"A", "-", "B">>), Str(<<"a", ":", "b">>), Missing}

\* the derived dicts given to build_element when it is called on its own
DerivedItems ==
    {Item(Str(t), Name, c, ty) :
        t \in StringsUpTo(MaxLen), c \in {NoConfidence, Confidence(9)},
        ty \in {"", "DataObject"}}
    \cup {Item(Missing, Name, NoConfidence, ""),
          Item(Str(<<"a">>), Missing, Confidence(9), "DataObject"),
          Item(Str(<<"a">>), Str(<<>>), NoConfidence, "")}

\* every spelling of s in upper and lower case letters
Casings(s) ==
    {[i \in 1..Len(s) |-> IF i \in up THEN Upper(s[i]) ELSE Lower(s[i])] :
        up \in SUBSET (1..Len(s))}

\* the relationship types a response may name: every casing of every member
\* of the enumeration and names that match no member ("Association" is the
\* default of rel_data.get at line 281)
RelTypeInputs ==
    UNION {Casings(v) : v \in RELATIONSHIP_TYPES}
    \cup {<<"A", "s", "s", "o", "c", "i", "a", "t", "i", "o", "n">>,
          <<"U", "n", "k", "n", "o", "w", "n">>,
          <<"I", "N", "V", "A", "L", "I", "D">>,
          <<"c", "u", "s", "t", "o", "m">>,
          <<"F", "l", "o">>,
          <<"F", "l", "o", "w", "s">>,
          <<>>}

\* name and metrics of the kinds of node a candidate list is made of;
\* community "self" makes the node a community root, enriched FALSE leaves
\* the node out of the enrichment map
Profiles ==
    <<[name |-> Str(<<"C", "u", "s", "t", "o", "m", "e", "r">>),
       enriched |-> TRUE, pagerank |-> 2, community |-> "self"],
      [name |-> Str(<<"O", "r", "d", "e", "r">>),
       enriched |-> TRUE, pagerank |-> 1, community |-> "other"],
      [name |-> Str(<<"B", "a", "s", "e", "H", "e", "l", "p", "e", "r">>),
       enriched |-> TRUE, pagerank |-> 2, community |-> "other"],
      [name |-> Str(<<"c", "f", "g">>),
       enriched |-> TRUE, pagerank |-> 1, community |-> "self"],
      [name |-> Missing,
       enriched |-> FALSE, pagerank |-> 0, community |-> "other"]>>

\* lists of up to n nodes with different node ids, each <<node id, profile>>
NodeLists(n) ==
    {s \in UNION {[1..k -> (1..n) \X DOMAIN Profiles] : k \in 0..n} :
        \A i, j \in 1..Len(s) : i # j => s[i][1] # s[j][1]}

\* the candidate list and the enrichment map a node list stands for
CandidatesOf(s) == [i \in 1..Len(s) |-> Candidate(s[i][1], Profiles[s[i][2]].name)]
EnrichmentsOf(s) ==
    [node_id \in {s[i][1] : i \in {j \in 1..Len(s) : Profiles[s[j][2]].enriched}} |->
        LET i == CHOOSE j \in 1..Len(s) : s[j][1] = node_id
        IN [pagerank |-> Profiles[s[i][2]].pagerank,
            louvain_community |-> IF Profiles[s[i][2]].community = "self"
                                  THEN node_id ELSE node_id + 1]]

\* the words the enumerated candidate names are made of
NameParts ==
    {<<"g", "e", "t">>,
     <<"H", "e", "l", "p", "e", "r">>,
     <<"_">>,
     <<"U", "s", "e", "r">>,
     <<"A", "P", "I">>,
     <<"p", "y", "t", "e", "s", "t">>,
     <<"r", "e", "d", "i", "s">>,
     <<"-">>,
     <<"j", "s", "o", "n">>,
     <<"P", "a", "r", "s", "e">>}

\* the names made of up to n words
RECURSIVE NamesUpTo(_)
NamesUpTo(n) ==
    IF n = 0 THEN {<<>>}
    ELSE NamesUpTo(n - 1) \cup {w \o t : w \in NameParts, t \in NamesUpTo(n - 1)}

Err(k) == [kind |-> k, ref |-> <<>>]
ErrRef(k, r) == [kind |-> k, ref |-> r]

(***************************************************************************)
(* Completion responses and their parsing (base.py, common/json_utils.py)  *)
(***************************************************************************)
\* the array keys of DERIVATION_SCHEMA and RELATIONSHIP_SCHEMA
ElementsKey == <<"elements">>
RelationshipsKey == <<"relationships">>

\* the content of a completion response: text that is not JSON, or a JSON
\* object with at most one member, named key, that holds a string or an
\* array of len items
NoResponse == [kind |-> "none", key |-> <<>>, value |-> "none", len |-> 0]
NotJson == [kind |-> "text", key |-> <<>>, value |-> "none", len |-> 0]
EmptyObject == [kind |-> "object", key |-> <<>>, value |-> "none", len |-> 0]
ObjectWith(key, value, n) == [kind |-> "object", key |-> key, value |-> value, len |-> n]

\* the responses a caller expecting `key` may receive, arrays of up to n items
Responses(key, n) ==
    {NotJson, EmptyObject, ObjectWith(key, "string", 0)}
    \cup {ObjectWith(key, "array", k) : k \in 0..n}

\* parse_json_array(response, key).to_dict(): data is the number of items
parse_json_array(resp, key) ==
    IF resp.kind # "object"
    THEN [success |-> FALSE, data |-> 0, errors |-> <<Err("JSON parsing error")>>]
    ELSE IF resp.key # key
    THEN [success |-> FALSE, data |-> 0, errors |-> <<ErrRef("Response missing key", key)>>]
    ELSE IF resp.value # "array"
    THEN [success |-> FALSE, data |-> 0, errors |-> <<ErrRef("Key is not an array", key)>>]
    ELSE [success |-> TRUE, data |-> resp.len, errors |-> <<>>]

\* a slip: the element parser looks for the relationship schema's key
ParseWithRelationshipsKey(resp) == parse_json_array(resp, RelationshipsKey)

\* parse_derivation_response
parse_derivation_response(resp) == parse_json_array(resp, ElementsKey)

\* parse_relationship_response
parse_relationship_response(resp) == parse_json_array(resp, RelationshipsKey)

ZeroStats == [elements_created |-> 0, relationships_created |-> 0,
              steps_completed |-> 0, steps_skipped |-> 0]
NoRel == [status |-> "none", source_ref |-> Missing, target_ref |-> Missing,
          source |-> NotFound, target |-> NotFound]
NoResult == [success |-> FALSE, elements_created |-> 0]
NoDerived == Item(Missing, Missing, NoConfidence, "")
NoBuild == [NoData EXCEPT !.outcome = "none"]

Identifiers(elements) == {elements[i].identifier : i \in 1..Len(elements)}

\* the node ids of the graphs that are enriched: "1a" < "A1" < "a"
NodeIds == {<<"a">>, <<"A", "1">>, <<"1", "a">>}
EdgePool ==
    {Edge(<<"a">>, <<"A", "1">>), Edge(<<"A", "1">>, <<"1", "a">>),
     Edge(<<"1", "a">>, <<"a">>), Edge(<<"a">>, <<"a">>)}
EdgeLists(n) == UNION {[1..k -> EdgePool] : k \in 0..n}
ALGORITHM_NAMES ==
    {"pagerank", "louvain", "kcore", "articulation_points", "degree"}
AlgorithmLists(n) ==
    UNION {[1..k -> ALGORITHM_NAMES \cup {"unknown"}] : k \in 0..n}

\* what the solvor library may return for a node set
Scores == {1, 2}
CoreLevels == {1, 2}
Partitions(nodes) ==
    {P \in SUBSET (SUBSET nodes \ {{}}) :
        /\ UNION P = nodes
        /\ \A a, b \in P : a = b \/ a \cap b = {}}
NoSolvor ==
    [pagerank |-> <<>>, louvain |-> {}, kcore |-> <<>>,
     articulation_points |-> {}]
\* the library is called for the requested algorithms on a graph with nodes
SolvorResults(edges, algorithms) ==
    LET nodes == AllNodes(edges)
        Called(a) == nodes # {} /\ InAlgorithms(a, algorithms)
    IN  [pagerank : IF Called("pagerank") THEN [nodes -> Scores] ELSE {<<>>},
         louvain : IF Called("louvain") THEN Partitions(nodes) ELSE {{}},
         kcore : IF Called("kcore") THEN [nodes -> CoreLevels] ELSE {<<>>},
         articulation_points :
             IF Called("articulation_points") THEN SUBSET nodes ELSE {{}}]
NotComputed == [type |-> "none", items |-> <<>>]

\* the contents handed to chunk_by_lines, as the lengths of their lines
Contents(n) == UNION {[1..k -> 1..MaxLineLen] : k \in 0..n}
Overlaps == {0, 1}

(***************************************************************************)
(* State                                                                   *)
(***************************************************************************)
VARIABLES
    entry,                \* the function the caller invoked
    pc,                   \* position in that function
    phases,               \* run_derivation: the phases argument
    phases_queried,       \* phases whose configurations were read
    graph_updated,        \* whether a prep function was run on the graph
    llm_configured,       \* whether llm_query_fn is not None
    prep_configs,         \* enabled prep configurations, in store order
    gen_count,            \* number of enabled generate configurations
    prep_idx,             \* index of the next prep configuration
    gen_idx,              \* index of the next generate configuration
    stats,                \* run_derivation: stats
    errors,               \* run_derivation: errors
    all_created_elements, \* run_derivation: all_created_elements
    persisted,            \* elements add_element accepted, in call order
    items_left,           \* items of the parsed response not yet handled
    created_elements,     \* generate_element / generate: created_elements
    step_errors,          \* generate_element / generate: errors
    resolver_calls,       \* number of calls of _derive_relationships
    resolver_input,       \* the elements argument of the last such call
    rels_left,            \* relationships of the response not yet handled
    relationships_created,\* _derive_relationships: relationships_created
    rel_errors,           \* _derive_relationships: errors
    last_rel,             \* the relationship handled last and its outcome
    batch_num,            \* generate: batch_num
    batch_count,          \* generate: len(batches)
    llm_calls,            \* number of completion calls made
    graph_results,        \* what the candidate query of the last step did
    response,             \* the content of the last completion response
    item_status,          \* what became of the response item handled last
    last_item,            \* the response item handled last
    result,               \* the returned result object
    raw,                  \* sanitize / build_element: the argument
    derived,              \* build_element: the derived argument
    built,                \* build_element: the returned dict
    sanitized_once,       \* sanitize: _sanitize_identifier(raw)
    sanitized_twice,      \* sanitize: the result sanitized again
    rel_type,             \* _normalize_relationship_type: the argument
    normalized_type,      \* _normalize_relationship_type(rel_type)
    normalized_again,     \* the result normalized again
    strategy,             \* the element-type module whose function is called
    candidates,           \* filter_candidates / batch_candidates: candidates
    enrichments,          \* filter_candidates: enrichments
    max_candidates,       \* filter_candidates: the module's MAX_CANDIDATES
    filtered,             \* filter_candidates: the returned list
    batch_size,           \* batch_candidates: batch_size
    batches,              \* batch_candidates: the returned list of batches
    name,                 \* _is_likely_*: the name argument
    likely,               \* _is_likely_*: the returned flag
    edges,                \* enrich.py: the edges argument
    algorithms,           \* enrich_graph: the algorithms argument
    solvor,               \* what the solvor library returned to the calls made
    graph_enrichments,    \* enrich_graph: the returned dict
    algorithm,            \* the compute_* function called on its own
    computed,             \* the value that function returned
    content,              \* chunk_by_lines: the content argument
    max_tokens,           \* chunk_by_lines: the max_tokens argument
    overlap,              \* chunk_by_lines: the overlap argument
    chunks                \* chunk_by_lines: the returned list of chunks

vars == <<entry, pc, phases, phases_queried, graph_updated, llm_configured,
          prep_configs, gen_count, prep_idx, gen_idx, stats, errors,
          all_created_elements, persisted, items_left, created_elements,
          step_errors, resolver_calls, resolver_input, rels_left,
          relationships_created, rel_errors, last_rel, batch_num, batch_count,
          llm_calls, graph_results, response, item_status, last_item, result, raw,
          derived, built, sanitized_once, sanitized_twice, rel_type,
          normalized_type, normalized_again, strategy, candidates,
          enrichments, max_candidates, filtered, batch_size, batches, name,
          likely, edges, algorithms, solvor, graph_enrichments, algorithm,
          computed, content, max_tokens, overlap, chunks>>

runVars == <<phases, phases_queried, graph_updated, llm_configured,
             prep_configs, gen_count, prep_idx, gen_idx, stats, errors,
             all_created_elements, resolver_calls, resolver_input, rels_left,
             relationships_created, rel_errors, last_rel>>
stepVars == <<persisted, items_left, created_elements, step_errors, llm_calls,
              graph_results, response, item_status, last_item>>
batchVars == <<batch_num, batch_count>>
idVars == <<raw, derived, built, sanitized_once, sanitized_twice>>
typeVars == <<rel_type, normalized_type, normalized_again>>
filterVars == <<candidates, enrichments, max_candidates, filtered, batch_size,
                batches>>
nameVars == <<name, likely>>
enrichVars == <<edges, algorithms, solvor, graph_enrichments, algorithm,
                computed>>
chunkVars == <<content, max_tokens, overlap, chunks>>
libVars == <<enrichVars, chunkVars>>
pureVars == <<idVars, typeVars, strategy, filterVars, nameVars, libVars>>

Init ==
    /\ entry \in Entries
    /\ pc = "idle"
    /\ IF entry = "run_derivation"
       THEN /\ phases \in PhaseArgs
            /\ llm_configured \in BOOLEAN
            \* the enabled configurations of each phase in the config store
            /\ prep_configs \in PrepConfigs
            /\ gen_count \in 0..MaxGenSteps
       ELSE /\ phases = {}
            /\ llm_configured = TRUE
            /\ prep_configs = <<>>
            /\ gen_count = 0
    /\ phases_queried = {}
    /\ graph_updated = FALSE
    /\ prep_idx = 1
    /\ gen_idx = 1
    /\ stats = ZeroStats
    /\ errors = <<>>
    /\ all_created_elements = <<>>
    /\ persisted = <<>>
    /\ items_left = 0
    /\ created_elements = <<>>
    /\ step_errors = <<>>
    /\ resolver_calls = 0
    /\ resolver_input = <<>>
    /\ rels_left = 0
    /\ relationships_created = 0
    /\ rel_errors = <<>>
    /\ last_rel = NoRel
    /\ batch_num = 0
    /\ batch_count = 0
    /\ llm_calls = 0
    /\ graph_results = "none"
    /\ response = NoResponse
    /\ item_status = "none"
    /\ last_item = NoDerived
    /\ result = NoResult
    /\ raw = <<>>
    /\ derived = NoDerived
    /\ built = NoBuild
    /\ sanitized_once = <<>>
    /\ sanitized_twice = <<>>
    /\ rel_type = <<>>
    /\ normalized_type = <<>>
    /\ normalized_again = <<>>
    \* the element-type module whose generate is called
    /\ strategy \in IF entry = "generate" THEN GenerateModules ELSE {""}
    /\ candidates = <<>>
    /\ enrichments = <<>>
    /\ max_candidates = 0
    /\ filtered = <<>>
    /\ batch_size = 0
    /\ batches = <<>>
    /\ name = <<>>
    /\ likely = FALSE
    /\ edges = <<>>
    /\ algorithms = <<>>
    /\ solvor = NoSolvor
    /\ graph_enrichments = <<>>
    /\ algorithm = ""
    /\ computed = NotComputed
    /\ content = <<>>
    /\ max_tokens = 0
    /\ overlap = 0
    /\ chunks = <<>>

(***************************************************************************)
(* run_derivation                                                          *)
(***************************************************************************)
\* a slip: success taken from the step counters instead of the error list
SuccessFromSkipped(errs, st) == st.steps_skipped = 0

\* the success field of the result: len(errors) == 0
RunSuccess(errs, st) == Len(errs) = 0

\* a slip: the resolver is started as soon as one element exists
NeedsRelationshipsNonEmpty(elements) == Len(elements) > 0

\* the condition under which relationships are derived
NeedsRelationships(elements) == Len(elements) > 0 /\ Len(elements) > 1

\* a slip: the generate phase is entered first
FirstPhaseGenerate(ph) ==
    IF "generate" \in ph THEN "generate" ELSE IF "prep" \in ph THEN "prep" ELSE "finish"

\* the phase a run starts with: prep (line 136) comes before generate (line 165)
FirstPhase(ph) ==
    IF "prep" \in ph THEN "prep" ELSE IF "generate" \in ph THEN "generate" ELSE "finish"

\* lines 119-136: the accumulators are empty and the first phase is entered
StartRun ==
    /\ entry = "run_derivation" /\ pc = "idle"
    /\ pc' = FirstPhase(phases)
    \* get_derivation_configs is called for the phase that is entered
    /\ phases_queried' = {FirstPhase(phases)} \ {"finish"}
    /\ UNCHANGED <<entry, phases, graph_updated, llm_configured, prep_configs,
                   gen_count, prep_idx, gen_idx, stats, errors,
                   all_created_elements, resolver_calls, resolver_input,
                   rels_left, relationships_created, rel_errors, last_rel,
                   stepVars, batchVars, result, pureVars>>

\* a slip: the generate phase is entered whatever the phases argument holds
AfterPrepAlwaysGenerate(ph) == "generate"

\* line 165: what follows the prep phase
AfterPrep(ph) == IF "generate" \in ph THEN "generate" ELSE "finish"

\* one pass of the prep loop: _run_prep_step and the bookkeeping after it.
\* The call is not inside a try block: a raising prep function ends the run.
PrepStep ==
    /\ entry = "run_derivation" /\ pc = "prep"
    /\ prep_idx <= Len(prep_configs)
    /\ \E outcome \in {"ok", "errors", "raise"} :
         LET known == prep_configs[prep_idx] = "pagerank"
             result_errors == IF ~known THEN <<Err("Unknown prep step")>>
                              ELSE IF outcome = "errors" THEN <<Err("prep step error")>>
                              ELSE <<>>
         IN IF known /\ outcome = "raise"
            THEN /\ pc' = "raised"
                 /\ UNCHANGED <<prep_idx, stats, errors>>
            ELSE /\ pc' = "prep"
                 /\ prep_idx' = prep_idx + 1
                 /\ stats' = [stats EXCEPT !.steps_completed = @ + 1]
                 /\ errors' = errors \o result_errors
    \* a known prep function is handed the graph manager (line 85)
    /\ graph_updated' = (graph_updated \/ prep_configs[prep_idx] = "pagerank")
    /\ UNCHANGED <<entry, phases, phases_queried, llm_configured,
                   prep_configs, gen_count, gen_idx, all_created_elements,
                   resolver_calls, resolver_input, rels_left,
                   relationships_created, rel_errors, last_rel, stepVars,
                   batchVars, result, pureVars>>

\* the prep loop is exhausted
EndPrep ==
    /\ entry = "run_derivation" /\ pc = "prep"
    /\ prep_idx > Len(prep_configs)
    /\ pc' = AfterPrep(phases)
    /\ phases_queried' = phases_queried \cup ({AfterPrep(phases)} \ {"finish"})
    /\ UNCHANGED <<entry, phases, graph_updated, llm_configured, prep_configs,
                   gen_count, prep_idx, gen_idx, stats, errors,
                   all_created_elements, resolver_calls, resolver_input,
                   rels_left, relationships_created, rel_errors, last_rel,
                   stepVars, batchVars, result, pureVars>>

\* a slip: the failure of the candidate query is swallowed
QueryErrorSwallowed ==
    [elements_created |-> 0, created_elements |-> <<>>, errors |-> <<>>]

\* generate_element lines 53-58: the result when the candidate query raised
QueryErrorResult ==
    [elements_created |-> 0, created_elements |-> <<>>,
     errors |-> <<Err("Query error")>>]

\* generate_element lines 60-61: the result when the query returned no row
EmptyResult ==
    [elements_created |-> 0, created_elements |-> <<>>, errors |-> <<>>]

\* lines 193-205: the step result is added to the run's accumulators
MergeStep(created, errs) ==
    /\ stats' = [stats EXCEPT !.elements_created = @ + Len(created),
                              !.steps_completed = @ + 1]
    /\ all_created_elements' = all_created_elements \o created
    /\ errors' = errors \o errs
    /\ gen_idx' = gen_idx + 1
    /\ pc' = "generate"
    /\ items_left' = 0
    /\ created_elements' = <<>>
    /\ step_errors' = <<>>

\* one pass of the generate loop up to the parsed response: generate_element
\* lines 46-99; every early return is merged at once
GenerateStepCall ==
    /\ entry = "run_derivation" /\ pc = "generate"
    /\ gen_idx <= gen_count
    /\ \E rows \in {"raise", "empty", "rows"}, llm_ok \in BOOLEAN,
          resp \in Responses(ElementsKey, MaxItems + 1) :
         LET parse_result == parse_derivation_response(resp)
         IN /\ graph_results' = rows
            /\ item_status' = "none"
            /\ last_item' = NoDerived
            /\ IF rows = "raise"
               THEN /\ MergeStep(QueryErrorResult.created_elements, QueryErrorResult.errors)
                    /\ response' = NoResponse
                    /\ UNCHANGED llm_calls
               ELSE IF rows = "empty"
               THEN /\ MergeStep(EmptyResult.created_elements, EmptyResult.errors)
                    /\ response' = NoResponse
                    /\ UNCHANGED llm_calls
               ELSE IF ~llm_configured
               THEN /\ MergeStep(<<>>, <<Err("LLM not configured")>>)
                    /\ response' = NoResponse
                    /\ UNCHANGED llm_calls
               ELSE IF ~llm_ok
               THEN /\ MergeStep(<<>>, <<Err("LLM error")>>)
                    /\ response' = NoResponse
                    /\ llm_calls' = llm_calls + 1
               ELSE /\ llm_calls' = llm_calls + 1
                    /\ response' = resp
                    /\ IF ~parse_result.success
                       THEN MergeStep(<<>>, parse_result.errors)
                       ELSE /\ pc' = "gen_items"
                            /\ items_left' = parse_result.data
                            /\ created_elements' = <<>>
                            /\ step_errors' = <<>>
                            /\ UNCHANGED <<stats, all_created_elements, errors, gen_idx>>
    /\ UNCHANGED <<entry, phases, phases_queried, graph_updated,
                   llm_configured, prep_configs, gen_count, prep_idx,
                   resolver_calls, resolver_input, rels_left,
                   relationships_created, rel_errors, last_rel, persisted,
                   batchVars, result, pureVars>>

\* generate_element lines 102-128 for one item of the response; an exception
\* of build_element leaves generate_element and is caught at lines 207-211
GenerateItem ==
    /\ entry = "run_derivation" /\ pc = "gen_items"
    /\ items_left > 0
    /\ \E item \in ItemsAt(response.len - items_left + 1), persist_ok \in BOOLEAN :
         LET b == build_element(item, StepElementType(gen_idx))
             element == [identifier |-> Element(b.identifier, Len(persisted) + 1),
                         element_type |-> b.element_type]
         IN /\ last_item' = item
            /\ IF b.outcome = "raise"
               THEN /\ errors' = Append(errors, Err("Error in step"))
                    /\ stats' = [stats EXCEPT !.steps_skipped = @ + 1]
                    /\ gen_idx' = gen_idx + 1
                    /\ pc' = "generate"
                    /\ items_left' = 0
                    /\ created_elements' = <<>>
                    /\ step_errors' = <<>>
                    /\ item_status' = "raise"
                    /\ UNCHANGED persisted
               ELSE /\ items_left' = items_left - 1
                    /\ item_status' = IF b.outcome = "invalid" THEN "invalid"
                                      ELSE IF persist_ok THEN "created"
                                      ELSE "persist_failed"
                    /\ UNCHANGED <<errors, stats, gen_idx, pc>>
                    /\ IF b.outcome = "invalid"
                       THEN /\ step_errors' = Append(step_errors, Err("Missing identifier or name"))
                            /\ UNCHANGED <<persisted, created_elements>>
                       ELSE IF persist_ok
                       THEN /\ persisted' = Append(persisted, element)
                            /\ created_elements' = Append(created_elements, element)
                            /\ UNCHANGED step_errors
                       ELSE /\ step_errors' = Append(step_errors, Err("Failed to persist"))
                            /\ UNCHANGED <<persisted, created_elements>>
    /\ UNCHANGED <<entry, phases, phases_queried, graph_updated,
                   llm_configured, prep_configs, gen_count, prep_idx,
                   all_created_elements, resolver_calls, resolver_input,
                   rels_left, relationships_created, rel_errors, last_rel,
                   llm_calls, graph_results, response, batchVars, result,
                   pureVars>>

\* generate_element lines 130-134 and run_derivation lines 193-205
GenerateStepReturn ==
    /\ entry = "run_derivation" /\ pc = "gen_items"
    /\ items_left = 0
    /\ MergeStep(created_elements, step_errors)
    /\ item_status' = "none"
    /\ last_item' = NoDerived
    /\ UNCHANGED <<entry, phases, phases_queried, graph_updated,
                   llm_configured, prep_configs, gen_count, prep_idx,
                   resolver_calls, resolver_input, rels_left,
                   relationships_created, rel_errors, last_rel, persisted,
                   llm_calls, graph_results, response, batchVars, result,
                   pureVars>>

\* line 214 is false: no relationship is derived
SkipRelationships ==
    /\ entry = "run_derivation" /\ pc = "generate"
    /\ gen_idx > gen_count
    /\ ~NeedsRelationships(all_created_elements)
    /\ pc' = "finish"
    /\ UNCHANGED <<entry, runVars, stepVars, batchVars, result, pureVars>>

\* line 218 and _derive_relationships lines 249-270
DeriveRelationshipsCall ==
    /\ entry = "run_derivation" /\ pc = "generate"
    /\ gen_idx > gen_count
    /\ NeedsRelationships(all_created_elements)
    /\ resolver_calls' = resolver_calls + 1
    /\ resolver_input' = all_created_elements
    /\ \E llm_ok \in BOOLEAN, resp \in Responses(RelationshipsKey, MaxRels) :
         LET parse_result == parse_relationship_response(resp)
         IN IF ~llm_configured \/ ~llm_ok
            THEN /\ errors' = Append(errors,
                        IF ~llm_configured THEN Err("LLM not configured")
                        ELSE Err("LLM error"))
                 /\ stats' = [stats EXCEPT !.relationships_created = 0]
                 /\ llm_calls' = IF llm_configured THEN llm_calls + 1 ELSE llm_calls
                 /\ response' = NoResponse
                 /\ pc' = "finish"
                 /\ UNCHANGED <<rels_left, relationships_created, rel_errors>>
            ELSE /\ llm_calls' = llm_calls + 1
                 /\ response' = resp
                 /\ IF ~parse_result.success
                    THEN /\ errors' = errors \o parse_result.errors
                         /\ stats' = [stats EXCEPT !.relationships_created = 0]
                         /\ pc' = "finish"
                         /\ UNCHANGED <<rels_left, relationships_created, rel_errors>>
                    ELSE /\ pc' = "relationships"
                         /\ rels_left' = parse_result.data
                         /\ relationships_created' = 0
                         /\ rel_errors' = <<>>
                         /\ UNCHANGED <<errors, stats>>
    /\ UNCHANGED <<entry, phases, phases_queried, graph_updated,
                   llm_configured, prep_configs, gen_count, prep_idx, gen_idx,
                   all_created_elements, last_rel, persisted, items_left,
                   created_elements, step_errors, graph_results, item_status, last_item,
                   batchVars, result, pureVars>>

\* a slip: the counter is advanced before add_relationship is called
CountAttempted(n, status) ==
    IF status \in {"persisted", "persist_failed"} THEN n + 1 ELSE n

\* lines 303-307: relationships_created after one relationship was handled
CountCreated(n, status) == IF status = "persisted" THEN n + 1 ELSE n

\* _derive_relationships lines 280-307 for one relationship of the response
RelationshipItem ==
    /\ entry = "run_derivation" /\ pc = "relationships"
    /\ rels_left > 0
    /\ \E source_ref \in ResponseRefs, target_ref \in ResponseRefs,
          persist_ok \in BOOLEAN :
         \E o \in RelOutcomes(Identifiers(resolver_input), source_ref, target_ref,
                              persist_ok) :
           /\ last_rel' = [status |-> o.status, source_ref |-> source_ref,
                           target_ref |-> target_ref, source |-> o.source,
                           target |-> o.target]
           /\ IF o.status = "raise"
              THEN /\ pc' = "raised"
                   /\ UNCHANGED <<rels_left, relationships_created, rel_errors>>
              ELSE /\ pc' = "relationships"
                   /\ rels_left' = rels_left - 1
                   /\ relationships_created' =
                        CountCreated(relationships_created, o.status)
                   /\ rel_errors' =
                        IF o.status = "source_not_found"
                        THEN Append(rel_errors,
                               ErrRef("Relationship source not found", source_ref.text))
                        ELSE IF o.status = "target_not_found"
                        THEN Append(rel_errors,
                               ErrRef("Relationship target not found", target_ref.text))
                        ELSE IF o.status = "persist_failed"
                        THEN Append(rel_errors, Err("Failed to persist relationship"))
                        ELSE rel_errors
    /\ UNCHANGED <<entry, phases, phases_queried, graph_updated,
                   llm_configured, prep_configs, gen_count, prep_idx, gen_idx,
                   stats, errors, all_created_elements, resolver_calls,
                   resolver_input, stepVars, batchVars, result, pureVars>>

\* _derive_relationships lines 309-312 and run_derivation lines 224-226
RelationshipsReturn ==
    /\ entry = "run_derivation" /\ pc = "relationships"
    /\ rels_left = 0
    /\ stats' = [stats EXCEPT !.relationships_created = relationships_created]
    /\ errors' = errors \o rel_errors
    /\ pc' = "finish"
    /\ UNCHANGED <<entry, phases, phases_queried, graph_updated,
                   llm_configured, prep_configs, gen_count, prep_idx, gen_idx,
                   all_created_elements, resolver_calls, resolver_input,
                   rels_left, relationships_created, rel_errors, last_rel,
                   stepVars, batchVars, result, pureVars>>

\* lines 235-240
ReturnResult ==
    /\ entry = "run_derivation" /\ pc = "finish"
    /\ result' = [success |-> RunSuccess(errors, stats),
                  elements_created |-> stats.elements_created]
    /\ pc' = "done"
    /\ UNCHANGED <<entry, runVars, stepVars, batchVars, pureVars>>

(***************************************************************************)
(* generate of the element-type modules: the batched step; line numbers    *)
(* are those of application_component.py                                   *)
(***************************************************************************)
ELEMENT_TYPE == "ApplicationComponent"

\* the ELEMENT_TYPE of each module
ElementTypeOf(module) ==
    CASE module = "application_component" -> ELEMENT_TYPE
      [] module = "business_object" -> "BusinessObject"
      [] module = "application_service" -> "ApplicationService"

\* GenerationResult: a dataclass whose success field keeps the value it was
\* constructed with
GenerationResult(success, elements_created) ==
    [success |-> success, elements_created |-> elements_created]

\* the success field of the result a module's generate returns:
\* application_component builds the result at the end from len(errors) == 0,
\* the other modules build GenerationResult(success=True) first and only
\* append to its errors afterwards
ReturnedSuccess(module, errs) ==
    IF module = "application_component" THEN Len(errs) = 0 ELSE TRUE

\* a slip: `break` instead of `continue` after a failed completion call
NextBatchAfterLLMErrorBreak(n, count) == count + 1

\* the batch the loop goes on with after the completion call raised
NextBatchAfterLLMError(n, count) == n + 1

\* lines 185-216: query, filter and split into batches.  The filtered list
\* is any list of at most MAX_CANDIDATES candidates, here k node ids.
GenerateStart ==
    /\ entry = "generate" /\ pc = "idle"
    /\ \E outcome \in {"query_raise", "no_candidates", "candidates"},
          k \in 0..Min(MaxBatches * BATCH_SIZE, MAX_CANDIDATES) :
         LET batch_list == batch_candidates([i \in 1..k |-> i], BATCH_SIZE)
         IN /\ graph_results' = IF outcome = "query_raise" THEN "raise"
                                ELSE IF outcome = "no_candidates" THEN "empty"
                                ELSE "rows"
            /\ IF outcome = "query_raise" /\ strategy = "application_component"
               THEN /\ step_errors' = <<Err("Query failed")>>
                    /\ result' = GenerationResult(FALSE, 0)
                    /\ pc' = "done"
                    /\ UNCHANGED batchVars
               ELSE IF outcome = "query_raise"
               \* the other modules call query_candidates outside a try block
               THEN /\ pc' = "raised"
                    /\ UNCHANGED <<step_errors, batchVars, result>>
               ELSE IF outcome = "no_candidates" \/ k = 0
               THEN /\ result' = GenerationResult(TRUE, 0)
                    /\ pc' = "done"
                    /\ UNCHANGED <<step_errors, batchVars>>
               ELSE /\ batch_count' = Len(batch_list)
                    /\ batch_num' = 1
                    /\ pc' = "batch"
                    /\ UNCHANGED <<step_errors, result>>
    /\ UNCHANGED <<entry, runVars, persisted, items_left, created_elements,
                   llm_calls, response, item_status, last_item, pureVars>>

\* lines 218-239: the completion call for batch batch_num and its parsing
BatchCall ==
    /\ entry = "generate" /\ pc = "batch"
    /\ batch_num <= batch_count
    /\ llm_calls' = llm_calls + 1
    /\ \E llm_ok \in BOOLEAN, resp \in Responses(ElementsKey, MaxBatchItems) :
         LET parse_result == parse_derivation_response(resp)
         IN IF ~llm_ok
            THEN /\ step_errors' = Append(step_errors, Err("LLM error in batch"))
                 /\ batch_num' = NextBatchAfterLLMError(batch_num, batch_count)
                 /\ response' = NoResponse
                 /\ UNCHANGED <<pc, items_left>>
            ELSE /\ response' = resp
                 /\ IF ~parse_result.success
                    THEN /\ step_errors' = step_errors \o parse_result.errors
                         /\ batch_num' = batch_num + 1
                         /\ UNCHANGED <<pc, items_left>>
                    ELSE /\ items_left' = parse_result.data
                         /\ pc' = "batch_items"
                         /\ UNCHANGED <<step_errors, batch_num>>
    /\ UNCHANGED <<entry, runVars, persisted, created_elements, batch_count,
                   graph_results, item_status, last_item, result, pureVars>>

\* lines 242-268 for one item of the batch's response; build_element is
\* called outside the try block, so its exception leaves generate
BatchItem ==
    /\ entry = "generate" /\ pc = "batch_items"
    /\ items_left > 0
    /\ \E item \in ResponseItems, persist_ok \in BOOLEAN :
         LET b == build_element(item, ElementTypeOf(strategy))
         IN /\ last_item' = item
            /\ IF b.outcome = "raise"
               THEN /\ pc' = "raised"
                    /\ item_status' = "raise"
                    /\ UNCHANGED <<items_left, step_errors, persisted, created_elements>>
               ELSE /\ items_left' = items_left - 1
                    /\ item_status' = IF b.outcome = "invalid" THEN "invalid"
                                      ELSE IF persist_ok THEN "created"
                                      ELSE "persist_failed"
                    /\ pc' = "batch_items"
                    /\ IF b.outcome = "invalid"
                       THEN /\ step_errors' = Append(step_errors, Err("Missing identifier or name"))
                            /\ UNCHANGED <<persisted, created_elements>>
                       ELSE IF persist_ok
                       THEN /\ persisted' = Append(persisted,
                                  [identifier |-> Element(b.identifier, Len(persisted) + 1),
                                   element_type |-> b.element_type])
                            /\ created_elements' = Append(created_elements,
                                  [identifier |-> b.identifier,
                                   element_type |-> ElementTypeOf(strategy)])
                            /\ UNCHANGED step_errors
                       ELSE /\ step_errors' = Append(step_errors, Err("Failed to create element"))
                            /\ UNCHANGED <<persisted, created_elements>>
    /\ UNCHANGED <<entry, runVars, llm_calls, graph_results, response, batchVars,
                   result, pureVars>>

\* the loop over the batch's items is exhausted: on to the next batch
BatchDone ==
    /\ entry = "generate" /\ pc = "batch_items"
    /\ items_left = 0
    /\ batch_num' = batch_num + 1
    /\ pc' = "batch"
    /\ UNCHANGED <<entry, runVars, stepVars, batch_count, result, pureVars>>

\* lines 270-275
GenerateReturn ==
    /\ entry = "generate" /\ pc = "batch"
    /\ batch_num > batch_count
    /\ result' = GenerationResult(ReturnedSuccess(strategy, step_errors),
                                  Len(created_elements))
    /\ pc' = "done"
    /\ UNCHANGED <<entry, runVars, stepVars, batchVars, pureVars>>

(***************************************************************************)
(* build_element and _sanitize_identifier called on their own              *)
(***************************************************************************)
BuildElement ==
    /\ entry = "build_element" /\ pc = "idle"
    /\ \E d \in DerivedItems :
         /\ derived' = d
         /\ built' = build_element(d, ELEMENT_TYPE)
    /\ pc' = "done"
    /\ UNCHANGED <<libVars, entry, runVars, stepVars, batchVars, result, raw,
                   sanitized_once, sanitized_twice, typeVars, strategy,
                   filterVars, nameVars>>

Sanitize ==
    /\ entry = "sanitize" /\ pc = "idle"
    /\ \E s \in StringsUpTo(MaxLen) :
         /\ raw' = s
         /\ sanitized_once' = _sanitize_identifier(s)
    /\ pc' = "sanitized"
    /\ UNCHANGED <<libVars, entry, runVars, stepVars, batchVars, result, derived, built,
                   sanitized_twice, typeVars, strategy, filterVars, nameVars>>

\* the sanitized identifier is sanitized again
SanitizeAgain ==
    /\ entry = "sanitize" /\ pc = "sanitized"
    /\ sanitized_twice' = _sanitize_identifier(sanitized_once)
    /\ pc' = "done"
    /\ UNCHANGED <<libVars, entry, runVars, stepVars, batchVars, result, raw, derived,
                   built, sanitized_once, typeVars, strategy, filterVars,
                   nameVars>>

(***************************************************************************)
(* _normalize_relationship_type called on its own                          *)
(***************************************************************************)
NormalizeRelType ==
    /\ entry = "normalize_relationship_type" /\ pc = "idle"
    /\ \E t \in RelTypeInputs :
         /\ rel_type' = t
         /\ normalized_type' = _normalize_relationship_type(t)
    /\ pc' = "normalized"
    /\ UNCHANGED <<libVars, entry, runVars, stepVars, batchVars, result, raw, derived,
                   built, sanitized_once, sanitized_twice, normalized_again,
                   strategy, filterVars, nameVars>>

\* the normalized type is normalized again
NormalizeRelTypeAgain ==
    /\ entry = "normalize_relationship_type" /\ pc = "normalized"
    /\ normalized_again' = _normalize_relationship_type(normalized_type)
    /\ pc' = "done"
    /\ UNCHANGED <<libVars, entry, runVars, stepVars, batchVars, result, raw, derived,
                   built, sanitized_once, sanitized_twice, rel_type,
                   normalized_type, strategy, filterVars, nameVars>>

(***************************************************************************)
(* filter_candidates, batch_candidates and the name classifiers on their   *)
(* own                                                                     *)
(***************************************************************************)
\* application_component.filter_candidates on candidates that
\* query_candidates has enriched
FilterApplicationComponent ==
    /\ entry = "filter_candidates" /\ pc = "idle"
    /\ \E s \in NodeLists(MaxCands), limit \in 0..MaxLimit :
         /\ candidates' = EnrichAll(CandidatesOf(s), EnrichmentsOf(s))
         /\ enrichments' = EnrichmentsOf(s)
         /\ max_candidates' = limit
         /\ filtered' = application_component_filter_candidates(
                            candidates', enrichments', limit)
    /\ strategy' = "application_component"
    /\ pc' = "done"
    /\ UNCHANGED <<libVars, entry, runVars, stepVars, batchVars, result, idVars, typeVars,
                   batch_size, batches, nameVars>>

\* business_object.filter_candidates
FilterBusinessObject ==
    /\ entry = "filter_candidates" /\ pc = "idle"
    /\ \E s \in NodeLists(MaxCands), limit \in 0..MaxLimit :
         /\ candidates' = CandidatesOf(s)
         /\ enrichments' = EnrichmentsOf(s)
         /\ max_candidates' = limit
         /\ filtered' = business_object_filter_candidates(
                            candidates', enrichments', limit)
    /\ strategy' = "business_object"
    /\ pc' = "done"
    /\ UNCHANGED <<libVars, entry, runVars, stepVars, batchVars, result, idVars, typeVars,
                   batch_size, batches, nameVars>>

BatchCandidates ==
    /\ entry = "batch_candidates" /\ pc = "idle"
    /\ \E s \in NodeLists(MaxCands), n \in 1..MaxBatchSize :
         /\ candidates' = CandidatesOf(s)
         /\ batch_size' = n
         /\ batches' = batch_candidates(candidates', n)
    /\ pc' = "done"
    /\ UNCHANGED <<libVars, entry, runVars, stepVars, batchVars, result, idVars, typeVars,
                   strategy, enrichments, max_candidates, filtered, nameVars>>

\* application_service._is_likely_service
ClassifyService ==
    /\ entry = "is_likely" /\ pc = "idle"
    /\ \E n \in NamesUpTo(MaxNameParts) :
         name' = n /\ likely' = _is_likely_service(n)
    /\ strategy' = "application_service"
    /\ pc' = "done"
    /\ UNCHANGED <<libVars, entry, runVars, stepVars, batchVars, result, idVars, typeVars,
                   filterVars>>

\* technology_service._is_likely_tech_service
ClassifyTechService ==
    /\ entry = "is_likely" /\ pc = "idle"
    /\ \E n \in NamesUpTo(MaxNameParts) :
         name' = n /\ likely' = _is_likely_tech_service(n)
    /\ strategy' = "technology_service"
    /\ pc' = "done"
    /\ UNCHANGED <<libVars, entry, runVars, stepVars, batchVars, result, idVars, typeVars,
                   filterVars>>

\* business_object._is_likely_business_object
ClassifyBusinessObject ==
    /\ entry = "is_likely" /\ pc = "idle"
    /\ \E n \in NamesUpTo(MaxNameParts) :
         name' = n /\ likely' = _is_likely_business_object(n)
    /\ strategy' = "business_object"
    /\ pc' = "done"
    /\ UNCHANGED <<libVars, entry, runVars, stepVars, batchVars, result, idVars, typeVars,
                   filterVars>>

(***************************************************************************)
(* enrich_graph and the compute_* functions on their own                   *)
(***************************************************************************)
EnrichGraph ==
    /\ entry = "enrich_graph" /\ pc = "idle"
    /\ \E e \in EdgeLists(MaxEdges), a \in AlgorithmLists(MaxAlgs) :
         \E lib \in SolvorResults(e, a) :
           /\ edges' = e
           /\ algorithms' = a
           /\ solvor' = lib
           /\ graph_enrichments' = enrich_graph(e, a, lib)
    /\ pc' = "done"
    /\ UNCHANGED <<entry, runVars, stepVars, batchVars, result, idVars, typeVars,
                   strategy, filterVars, nameVars, algorithm, computed, chunkVars>>

\* one of compute_pagerank, compute_louvain, compute_kcore,
\* compute_articulation_points and compute_degree_centrality
ComputeAlgorithm ==
    /\ entry = "compute_algorithm" /\ pc = "idle"
    /\ \E e \in EdgeLists(MaxEdges), a \in ALGORITHM_NAMES :
         \E lib \in SolvorResults(e, <<a>>) :
           /\ edges' = e
           /\ algorithm' = a
           /\ solvor' = lib
           /\ computed' =
                CASE a = "pagerank" -> compute_pagerank(e, lib.pagerank)
                  [] a = "louvain" -> compute_louvain(e, lib.louvain)
                  [] a = "kcore" -> compute_kcore(e, lib.kcore)
                  [] a = "articulation_points" ->
                         compute_articulation_points(e, lib.articulation_points)
                  [] a = "degree" -> compute_degree_centrality(e)
    /\ pc' = "done"
    /\ UNCHANGED <<entry, runVars, stepVars, batchVars, result, idVars, typeVars,
                   strategy, filterVars, nameVars, algorithms, graph_enrichments,
                   chunkVars>>

(***************************************************************************)
(* chunk_by_lines on its own                                               *)
(***************************************************************************)
ChunkByLines ==
    /\ entry = "chunk_by_lines" /\ pc = "idle"
    /\ \E c \in Contents(MaxLines), limit \in 1..MaxTokens, o \in Overlaps :
         /\ content' = c
         /\ max_tokens' = limit
         /\ overlap' = o
         /\ chunks' = chunk_by_lines(c, limit, o)
    /\ pc' = "done"
    /\ UNCHANGED <<entry, runVars, stepVars, batchVars, result, idVars, typeVars,
                   strategy, filterVars, nameVars, enrichVars>>

Next ==
    \/ StartRun
    \/ PrepStep
    \/ EndPrep
    \/ GenerateStepCall
    \/ GenerateItem
    \/ GenerateStepReturn
    \/ SkipRelationships
    \/ DeriveRelationshipsCall
    \/ RelationshipItem
    \/ RelationshipsReturn
    \/ ReturnResult
    \/ GenerateStart
    \/ BatchCall
    \/ BatchItem
    \/ BatchDone
    \/ GenerateReturn
    \/ BuildElement
    \/ Sanitize
    \/ SanitizeAgain
    \/ NormalizeRelType
    \/ NormalizeRelTypeAgain
    \/ FilterApplicationComponent
    \/ FilterBusinessObject
    \/ BatchCandidates
    \/ ClassifyService
    \/ ClassifyTechService
    \/ ClassifyBusinessObject
    \/ EnrichGraph
    \/ ComputeAlgorithm
    \/ ChunkByLines

Spec == Init /\ [][Next]_vars

(***************************************************************************)
(* Properties                                                              *)
(***************************************************************************)
InRun == entry = "run_derivation"
CreatedIds == Identifiers(all_created_elements)
PersistedIds == Identifiers(persisted)
HandedToAddRelationship == last_rel.status \in {"persisted", "persist_failed"}
IsNCName(i) ==
    /\ i # <<>>
    /\ IsAlpha(i[1]) \/ i[1] = "_"
    /\ \A k \in 1..Len(i) : IsAlnum(i[k]) \/ i[k] = "_"

\* C1: every call of run_derivation returns its result object; no failure of
\* the prep, generate or relationship phase propagates out of the run.
C1_RunNeverRaises == InRun => pc # "raised"

\* C2: every relationship handed to add_relationship has a source and a
\* target that are identifiers of elements created (and persisted) in this
\* run; an unresolved reference never reaches the persistence layer.
C2_EndpointsAreCreated ==
    (InRun /\ HandedToAddRelationship) =>
        /\ last_rel.source.found /\ last_rel.target.found
        /\ last_rel.source.id \in CreatedIds \cap PersistedIds
        /\ last_rel.target.id \in CreatedIds \cap PersistedIds

\* C2 witness: a relationship was persisted whose source reference is not a
\* created identifier verbatim and was resolved by normalization.
C2_Witness ==
    /\ InRun /\ last_rel.status = "persisted"
    /\ last_rel.source_ref.text \notin CreatedIds
    /\ last_rel.source.id \in CreatedIds

\* C3: the returned success flag is true exactly when the error list is
\* empty; a run with created elements and errors returns success = false and
\* a positive elements_created.
C3_SuccessIffNoErrors ==
    (InRun /\ pc = "done") =>
        /\ result.success <=> (errors = <<>>)
        /\ (errors # <<>> /\ all_created_elements # <<>>) =>
               (~result.success /\ result.elements_created > 0)

\* C3 witness: a finished run with at least one element and one error.
C3_Witness ==
    /\ InRun /\ pc = "done"
    /\ errors # <<>> /\ all_created_elements # <<>>
    /\ ~result.success /\ stats.elements_created > 0

\* C4: in the batched generate step an exception of the completion call adds
\* one error for the batch and the loop goes on with the next batch, so a
\* step that returns has sent every batch to the completion function.
C4_BatchFailureDoesNotStopStep ==
    /\ []((entry = "generate" /\ pc = "done" /\ batch_count > 0) =>
              llm_calls = batch_count)
    /\ [][(entry = "generate"
           /\ step_errors' = Append(step_errors, Err("LLM error in batch"))) =>
              /\ batch_num' = batch_num + 1
              /\ pc' = "batch"
              /\ created_elements' = created_elements
              /\ persisted' = persisted]_vars

\* C4 witness: the first of two batches failed in the completion call and
\* the second one created an element.
C4_Witness ==
    /\ entry = "generate" /\ pc = "done" /\ batch_count = 2
    /\ step_errors = <<Err("LLM error in batch")>>
    /\ created_elements # <<>>
    /\ ~result.success /\ result.elements_created > 0

C7_SanitizeIdempotent ==
    (entry = "sanitize" /\ pc = "done") => sanitized_twice = sanitized_once

\* C7 witness: a raw identifier that sanitization changed and prefixed.
C7_Witness ==
    /\ entry = "sanitize" /\ pc = "done"
    /\ raw = <<"1", "-", "A">>
    /\ sanitized_once = <<"i", "d", "_", "1", "_", "a">>
    /\ sanitized_twice = sanitized_once

\* C8: for every non-empty raw identifier build_element accepts, the
\* sanitized identifier starts with a letter or an underscore and holds only
\* alphanumeric characters and underscores.
C8_SanitizedIsWellFormed ==
    (entry = "build_element" /\ pc = "done" /\ built.outcome = "ok") =>
        IsNCName(built.identifier)

\* C9: the resolver's fallback normalization is the sanitization of the
\* response parser: a reference r with sanitize(r) equal to a created
\* identifier c resolves to c.
C9_ResolverNormalizesLikeSanitizer ==
    (InRun /\ last_rel.status \notin {"none", "raise"}) =>
        /\ _sanitize_identifier(last_rel.source_ref.text) \in Identifiers(resolver_input)
              => last_rel.source = Found(_sanitize_identifier(last_rel.source_ref.text))
        /\ _sanitize_identifier(last_rel.target_ref.text) \in Identifiers(resolver_input)
              => last_rel.target = Found(_sanitize_identifier(last_rel.target_ref.text))

\* an endpoint reference that resolves to no element of the run
Unresolved(ref) ==
    \/ ref.kind # "str"
    \/ resolve_identifier(Identifiers(resolver_input), ref.text) = {NotFound}
UnresolvedCount(rel) ==
    (IF Unresolved(rel.source_ref) THEN 1 ELSE 0)
    + (IF Unresolved(rel.target_ref) THEN 1 ELSE 0)

\* C10: a relationship with an unresolved source or target is not persisted,
\* one error is recorded for each unresolved endpoint, and the remaining
\* relationships of the response are still processed.
C10_UnresolvedDroppedWithErrorPerEndpoint ==
    [][(/\ InRun /\ pc = "relationships"
        /\ rels_left' # rels_left \/ pc' = "raised"
        /\ UnresolvedCount(last_rel') > 0) =>
           /\ pc' = "relationships"
           /\ rels_left' = rels_left - 1
           /\ relationships_created' = relationships_created
           /\ Len(rel_errors') = Len(rel_errors) + UnresolvedCount(last_rel')]_vars

\* C11: a failing prep step - unknown name, reported errors or an exception
\* of the algorithm - is recorded in the error list and the run goes on with
\* the next prep step (and then the generate phase).
C11_PrepFailureDoesNotStopRun ==
    [][(InRun /\ pc = "prep" /\ prep_idx <= Len(prep_configs)) =>
           /\ pc' = "prep"
           /\ prep_idx' = prep_idx + 1
           /\ prep_configs[prep_idx] # "pagerank" =>
                 errors' = Append(errors, Err("Unknown prep step"))]_vars

\* C12: a generate step whose candidate query returns no row adds no element
\* and no error, one whose query raises adds no element and one error; in
\* both cases no completion call and no add_element call is made and the
\* run goes on with the next generate step.
C12_EmptyOrFailedQuerySkipsStep ==
    [][(/\ InRun /\ pc = "generate" /\ gen_idx <= gen_count
        /\ graph_results' \in {"empty", "raise"}) =>
           /\ stats'.elements_created = stats.elements_created
           /\ all_created_elements' = all_created_elements
           /\ errors' = IF graph_results' = "empty" THEN errors
                        ELSE Append(errors, Err("Query error"))
           /\ llm_calls' = llm_calls
           /\ persisted' = persisted
           /\ pc' = "generate"
           /\ gen_idx' = gen_idx + 1]_vars

\* C12 witness: the query of the first step raised and the second step
\* created an element.
C12_Witness ==
    /\ InRun /\ pc = "done" /\ gen_idx = 3
    /\ errors = <<Err("Query error")>>
    /\ Len(all_created_elements) = 1
    /\ all_created_elements[1].element_type = StepElementType(2)

\* C13: when add_element or add_relationship raises for an item, one error
\* is recorded for it, it is not counted as created, the loop goes on with
\* the remaining items and the run is not aborted.
C13_PersistFailureSkipsOnlyTheItem ==
    /\ [][(/\ pc \in {"gen_items", "batch_items"} /\ items_left > 0
            /\ item_status' = "persist_failed") =>
               /\ pc' = pc
               /\ items_left' = items_left - 1
               /\ \/ step_errors' = Append(step_errors, Err("Failed to persist"))
                  \/ step_errors' = Append(step_errors, Err("Failed to create element"))
               /\ created_elements' = created_elements
               /\ persisted' = persisted
               /\ errors' = errors]_vars
    /\ [][(/\ InRun /\ pc = "relationships" /\ rels_left > 0
            /\ last_rel'.status = "persist_failed") =>
               /\ pc' = "relationships"
               /\ rels_left' = rels_left - 1
               /\ rel_errors' = Append(rel_errors, Err("Failed to persist relationship"))
               /\ relationships_created' = relationships_created]_vars
    /\ []((InRun /\ pc = "done") =>
              /\ stats.elements_created = Len(all_created_elements)
              /\ stats.elements_created <= Len(persisted))

\* C13 witness: a finished run in which add_relationship raised for the
\* first relationship and the second one was persisted.
C13_Witness ==
    /\ InRun /\ pc = "done"
    /\ rel_errors = <<Err("Failed to persist relationship")>>
    /\ relationships_created = 1
    /\ last_rel.status = "persisted"
    /\ stats.relationships_created = 1

\* the array key the caller about to make a completion call expects
ExpectedKey ==
    IF InRun /\ gen_idx > gen_count THEN RelationshipsKey ELSE ElementsKey
\* the response is a JSON object holding an array under key
HoldsArray(resp, key) ==
    resp.kind = "object" /\ resp.key = key /\ resp.value = "array"
\* the error list the caller of the parser records into
CallerErrors == IF entry = "generate" THEN step_errors ELSE errors

\* C14: a completion response that is not JSON, lacks the required array
\* key or holds no array under it makes the parser return a failure whose
\* error names the problem (the key); nothing raises, no element is created
\* from the response and the caller records the error.
C14_ParseFailureIsRecorded ==
    [][(/\ llm_calls' = llm_calls + 1
        /\ response' # NoResponse
        /\ ~HoldsArray(response', ExpectedKey)) =>
           /\ pc' # "raised"
           /\ items_left' = 0 /\ rels_left' = rels_left
           /\ persisted' = persisted
           /\ created_elements' = created_elements
           /\ all_created_elements' = all_created_elements
           /\ CallerErrors' = Append(CallerErrors,
                 IF response'.kind = "text" THEN Err("JSON parsing error")
                 ELSE IF response'.key # ExpectedKey
                 THEN ErrRef("Response missing key", ExpectedKey)
                 ELSE ErrRef("Key is not an array", ExpectedKey))]_vars

\* C14 witness: a finished run in which the response of one step lacked the
\* "elements" key and the other step created an element.
C14_Witness ==
    /\ InRun /\ pc = "done" /\ gen_idx = 3
    /\ errors = <<ErrRef("Response missing key", ElementsKey)>>
    /\ all_created_elements # <<>>

\* a field that is missing or the empty string
MissingOrEmpty(f) == f.kind = "missing" \/ (f.kind = "str" /\ f.text = <<>>)

MembersIgnoringCase(t) ==
    {v \in RELATIONSHIP_TYPES : LowerStr(v) = LowerStr(t)}

\* C16: relationship-type normalization returns the member of the
\* enumeration whose name equals the input ignoring case, returns an input
\* that matches no member unchanged, and is idempotent.
C16_NormalizeRelationshipType ==
    (entry = "normalize_relationship_type" /\ pc = "done") =>
        /\ MembersIgnoringCase(rel_type) # {} =>
               normalized_type \in MembersIgnoringCase(rel_type)
        /\ MembersIgnoringCase(rel_type) = {} => normalized_type = rel_type
        /\ normalized_again = normalized_type

\* C16 witness: "sErViNg" was normalized to the member "Serving".
C16_Witness ==
    /\ entry = "normalize_relationship_type" /\ pc = "done"
    /\ rel_type = <<"s", "E", "r", "V", "i", "N", "g">>
    /\ normalized_type = <<"S", "e", "r", "v", "i", "n", "g">>
    /\ normalized_again = normalized_type

\* C17: every element-type filter returns at most max_candidates
\* candidates, all of them candidates of its input, for every candidate
\* list, enrichment map and non-negative limit.
C17_FilterRespectsLimit ==
    (entry = "filter_candidates" /\ pc = "done") =>
        /\ Len(filtered) <= max_candidates
        /\ Range(filtered) \subseteq Range(EnrichAll(candidates, enrichments))

\* C17 witness: application_component.filter_candidates cut a list of three
\* candidates down to a limit of two.
C17_Witness ==
    /\ entry = "filter_candidates" /\ pc = "done"
    /\ strategy = "application_component"
    /\ Len(candidates) = 3 /\ max_candidates = 2 /\ Len(filtered) = 2

\* the concatenation of a list of batches
RECURSIVE Flatten(_)
Flatten(bs) == IF bs = <<>> THEN <<>> ELSE Head(bs) \o Flatten(Tail(bs))

\* C19: the batches of batch_candidates(L, n), n >= 1, concatenate to L,
\* each holds between one and n candidates, an empty L gives no batch, and
\* a generate step without filtered candidates makes no completion call.
C19_BatchesPartitionTheList ==
    /\ (entry = "batch_candidates" /\ pc = "done") =>
          /\ Flatten(batches) = candidates
          /\ \A b \in 1..Len(batches) :
                Len(batches[b]) >= 1 /\ Len(batches[b]) <= batch_size
          /\ candidates = <<>> => batches = <<>>
    /\ (entry = "generate" /\ batch_count = 0) => llm_calls = 0

\* C19 witness: three candidates were split into a batch of two and a batch
\* of one.
C19_Witness ==
    /\ entry = "batch_candidates" /\ pc = "done"
    /\ Len(candidates) = 3 /\ batch_size = 2
    /\ Len(batches) = 2 /\ Len(batches[1]) = 2 /\ Len(batches[2]) = 1

\* the exclusion and inclusion keywords of the strategy that was called
ExclusionKeywords ==
    IF strategy = "application_service" THEN application_service_EXCLUDED_PATTERNS
    ELSE IF strategy = "technology_service" THEN EXCLUDED_PACKAGES
    ELSE business_object_EXCLUDED_PATTERNS
InclusionKeywords ==
    IF strategy = "application_service" THEN SERVICE_PATTERNS
    ELSE IF strategy = "technology_service" THEN TECH_SERVICE_KEYWORDS
    ELSE BUSINESS_PATTERNS
\* the name contains an exclusion keyword and an inclusion keyword
MatchesBoth ==
    MatchesAny(ExclusionKeywords, name) /\ MatchesAny(InclusionKeywords, name)

\* C20: in every name-pattern strategy a name that contains, ignoring case,
\* both an exclusion keyword and an inclusion keyword is not likely.
C20_ExclusionTakesPrecedence ==
    (entry = "is_likely" /\ pc = "done" /\ MatchesBoth) => ~likely

\* C20 as amended: exclusion by substring takes precedence in the strategies
\* that test exclusions by substring; technology_service excludes a name
\* only when it equals an excluded package ignoring case, and any other
\* name is likely exactly when it contains a technology keyword.
C20_ExclusionAsCoded ==
    (entry = "is_likely" /\ pc = "done") =>
        /\ (strategy # "technology_service" /\ MatchesBoth) => ~likely
        /\ strategy = "technology_service" =>
              IF LowerStr(name) \in EXCLUDED_PACKAGES THEN ~likely
              ELSE likely <=> MatchesAny(TECH_SERVICE_KEYWORDS, name)

\* C20 witness: "getHelper" holds the service pattern "get" and the
\* exclusion "helper" and is not a likely service.
C20_Witness ==
    /\ entry = "is_likely" /\ pc = "done"
    /\ strategy = "application_service"
    /\ name = <<"g", "e", "t", "H", "e", "l", "p", "e", "r">>
    /\ MatchesBoth /\ ~likely


\* C21 as stated: given an empty edge list, enrich_graph and each of the
\* five compute_* functions return an empty map
C21_EmptyEdgeListGivesEmptyMap ==
    /\ (entry = "enrich_graph" /\ pc = "done" /\ edges = <<>>)
           => graph_enrichments = <<>>
    /\ (entry = "compute_algorithm" /\ pc = "done" /\ edges = <<>>)
           => (computed.type = "dict" /\ computed.items = <<>>)

\* C21 as the code has it: given an empty edge list, enrich_graph and the
\* pagerank, louvain, k-core and degree functions return an empty dict and
\* compute_articulation_points returns an empty set, none of them raising
C21_EmptyEdgeListAsCoded ==
    /\ (entry = "enrich_graph" /\ pc = "done" /\ edges = <<>>)
           => graph_enrichments = <<>>
    /\ (entry = "compute_algorithm" /\ pc = "done" /\ edges = <<>>)
           => IF algorithm = "articulation_points"
              THEN computed.type = "set" /\ computed.items = {}
              ELSE computed.type = "dict" /\ computed.items = <<>>

C21_Witness ==
    /\ entry = "compute_algorithm" /\ pc = "done" /\ edges = <<>>
    /\ algorithm = "articulation_points"
    /\ computed.type = "set"

\* the keys an algorithm writes into a node's metrics
MetricKeys(a) ==
    CASE a = "pagerank" -> {"pagerank"}
      [] a = "louvain" -> {"louvain_community"}
      [] a = "kcore" -> {"kcore_level"}
      [] a = "articulation_points" -> {"is_articulation_point"}
      [] a = "degree" -> {"in_degree", "out_degree"}
      [] OTHER -> {}

\* the value that the algorithm of a key computes for a node when it is
\* called on its own on the edge list
StandaloneValue(key, node) ==
    CASE key = "pagerank" -> compute_pagerank(edges, solvor.pagerank).items[node]
      [] key = "louvain_community" ->
             compute_louvain(edges, solvor.louvain).items[node]
      [] key = "kcore_level" -> compute_kcore(edges, solvor.kcore).items[node]
      [] key = "is_articulation_point" ->
             node \in compute_articulation_points(
                          edges, solvor.articulation_points).items
      [] key = "in_degree" -> compute_degree_centrality(edges).items[node].in_degree
      [] key = "out_degree" ->
             compute_degree_centrality(edges).items[node].out_degree

\* C22: for any list of algorithm names, a node's metrics hold no key of an
\* algorithm that is not listed, and each value written is the value its
\* own algorithm computes from the edge list, whatever else is listed and
\* in whatever order
C22_AlgorithmsAreIndependent ==
    (entry = "enrich_graph" /\ pc = "done") =>
        \A node \in DOMAIN graph_enrichments :
            /\ DOMAIN graph_enrichments[node] \subseteq
                   UNION {MetricKeys(algorithms[i]) : i \in DOMAIN algorithms}
            /\ \A key \in DOMAIN graph_enrichments[node] :
                   graph_enrichments[node][key] = StandaloneValue(key, node)

C22_Witness ==
    /\ entry = "enrich_graph" /\ pc = "done"
    /\ algorithms = <<"degree", "pagerank">>
    /\ \E node \in DOMAIN graph_enrichments :
           /\ DOMAIN graph_enrichments[node] = {"pagerank", "in_degree", "out_degree"}
           /\ graph_enrichments[node]["out_degree"] = 2

\* the community in which solvor's louvain placed a node
DetectedCommunity(node) == CHOOSE community \in solvor.louvain : node \in community

\* C23: after community detection every node's community id is the smallest
\* node id, in string order, of the nodes of its community; the community
\* id of a community id is itself, and each community has exactly one node
\* whose id equals its community id
C23_CommunityIdIsSmallestMember ==
    (entry = "compute_algorithm" /\ pc = "done" /\ algorithm = "louvain") =>
        LET community_id == computed.items
        IN  /\ DOMAIN community_id = AllNodes(edges)
            /\ \A n \in DOMAIN community_id :
                   /\ community_id[n] \in DetectedCommunity(n)
                   /\ \A m \in DetectedCommunity(n) :
                          m = community_id[n] \/ StrLess(community_id[n], m)
                   /\ community_id[community_id[n]] = community_id[n]
            /\ \A community \in solvor.louvain :
                   Cardinality({n \in community : community_id[n] = n}) = 1

C23_Witness ==
    /\ entry = "compute_algorithm" /\ pc = "done" /\ algorithm = "louvain"
    /\ solvor.louvain = {{<<"a">>, <<"1", "a">>}, {<<"A", "1">>}}
    /\ computed.items[<<"a">>] = <<"1", "a">>
    /\ computed.items[<<"A", "1">>] = <<"A", "1">>

\* C24: every executed step is counted exactly once: a generate step that
\* raises adds one error for the step, increments steps_skipped and not
\* steps_completed, and the generate loop goes on; every other executed prep
\* or generate step increments steps_completed; at the end of the run
\* steps_completed + steps_skipped is the number of steps executed.
C24_EveryStepCountedOnce ==
    /\ [][(InRun /\ pc = "prep" /\ prep_idx <= Len(prep_configs)) =>
              /\ stats'.steps_completed = stats.steps_completed + 1
              /\ stats'.steps_skipped = stats.steps_skipped]_vars
    /\ [][(InRun /\ gen_idx' = gen_idx + 1) =>
              IF item_status' = "raise"
              THEN /\ stats'.steps_skipped = stats.steps_skipped + 1
                   /\ stats'.steps_completed = stats.steps_completed
                   /\ errors' = Append(errors, Err("Error in step"))
                   /\ pc' = "generate"
              ELSE /\ stats'.steps_completed = stats.steps_completed + 1
                   /\ stats'.steps_skipped = stats.steps_skipped]_vars
    /\ []((InRun /\ pc = "done") =>
              stats.steps_completed + stats.steps_skipped
                  = (prep_idx - 1) + (gen_idx - 1))

\* C25: run_derivation executes only the phases named in its phases argument,
\* prep before generate: without "generate" no generate configuration is
\* read, no generate step runs, no completion call is made, no element and no
\* relationship is persisted and the resolver never runs; without "prep" no
\* prep configuration is read, no prep step runs and the graph is not updated.
C25_OnlyRequestedPhasesRun ==
    InRun =>
        /\ phases_queried \subseteq phases
        /\ "generate" \notin phases =>
               /\ pc \notin {"generate", "gen_items", "relationships"}
               /\ gen_idx = 1
               /\ llm_calls = 0
               /\ persisted = <<>>
               /\ stats.elements_created = 0
               /\ resolver_calls = 0
               /\ relationships_created = 0
        /\ "prep" \notin phases =>
               /\ pc # "prep"
               /\ prep_idx = 1
               /\ ~graph_updated
        /\ (pc \in {"generate", "gen_items", "relationships"} /\ "prep" \in phases) =>
               prep_idx > Len(prep_configs)

\* C25 witness: a prep-only run has returned, its prep step ran on the graph
\* and the enabled generate configurations were left alone.
C25_Witness ==
    /\ InRun /\ pc = "done"
    /\ phases = {"prep"}
    /\ gen_count > 0
    /\ graph_updated /\ prep_idx = 2
    /\ phases_queried = {"prep"}
    /\ gen_idx = 1

\* C26: for a content whose estimated token count exceeds max_tokens, every
\* chunk that chunk_by_lines returns with overlap = 0 and that holds more
\* than one line has an estimated token count of at most max_tokens.
C26_ChunksStayWithinLimit ==
    (entry = "chunk_by_lines" /\ pc = "done" /\ overlap = 0
     /\ estimate_tokens(content) > max_tokens) =>
        \A k \in DOMAIN chunks :
            Len(chunks[k].content) > 1 =>
                estimate_tokens(chunks[k].content) <= max_tokens

\* C27: the generate step of every element-type module returns
\* success = false when its result carries at least one error and
\* success = true only when its error list is empty.
C27_StepSuccessIffNoErrors ==
    (entry = "generate" /\ pc = "done") =>
        (result.success <=> step_errors = <<>>)

\* C28: for every response item that build_element accepts, the identifier
\* under which the element is handed to add_element and reported in
\* created_elements is the sanitized raw identifier, a function of the raw
\* text alone, made of lowercase letters, digits and underscores only.
C28_IdentifierIsSanitizedRaw ==
    (InRun /\ pc = "gen_items" /\ item_status = "created") =>
        LET handed == persisted[Len(persisted)].identifier
            reported == created_elements[Len(created_elements)].identifier
        IN  /\ handed = _sanitize_identifier(last_item.identifier.text)
            /\ reported = handed
            /\ \A k \in DOMAIN handed :
                   handed[k] \in LowerLetters \cup Digits \cup {"_"}

\* C29: at the end of every run stats.elements_created is the length of
\* created_elements and the number of add_element calls that returned, and
\* the identifiers in created_elements are exactly those of the persisted
\* elements, which are the elements the relationship resolver was given.
C29_CreatedElementsArePersisted ==
    (InRun /\ pc = "done") =>
        /\ stats.elements_created = Len(all_created_elements)
        /\ stats.elements_created = Len(persisted)
        /\ all_created_elements = persisted
        /\ resolver_calls > 0 => resolver_input = persisted

\* C30: the output of a name-pattern filter (business_object) holds only
\* input candidates with a non-empty name, none of them twice, at most
\* MAX_CANDIDATES // 2 likely candidates, every likely candidate before
\* every other candidate, and at most MAX_CANDIDATES candidates in all.
C30_LikelyFirstAndHalved ==
    (entry = "filter_candidates" /\ pc = "done" /\ strategy = "business_object") =>
        /\ \A i \in DOMAIN filtered :
               /\ filtered[i] \in Range(EnrichAll(candidates, enrichments))
               /\ Truthy(filtered[i].name)
        /\ \A i, j \in DOMAIN filtered :
               i # j => filtered[i].node_id # filtered[j].node_id
        /\ Len(SelectSeq(filtered, IsLikelyBusinessObject)) <= max_candidates \div 2
        /\ \A i, j \in DOMAIN filtered :
               (IsLikelyBusinessObject(filtered[i])
                /\ ~IsLikelyBusinessObject(filtered[j])) => i < j
        /\ Len(filtered) <= max_candidates

\* C30 witness: of two likely candidates and one other, the filter with two
\* slots kept one likely candidate and put the other candidate behind it.
C30_Witness ==
    /\ entry = "filter_candidates" /\ pc = "done" /\ strategy = "business_object"
    /\ max_candidates = 2
    /\ Len(SelectSeq(candidates, IsLikelyBusinessObject)) = 2
    /\ Len(filtered) = 2
    /\ IsLikelyBusinessObject(filtered[1])
    /\ ~IsLikelyBusinessObject(filtered[2])

====
